---- MODULE Spec2Model ----
(***************************************************************************)
(* Model of the client-side aggregation, classification and statistics     *)
(* code of the analytics dashboard (Treatment, Factors, Performance and    *)
(* Explore views), of the load effects of the views and the Dashboard,     *)
(* and of the debounce of the Explore search.                              *)
(*                                                                         *)
(* JavaScript values are records [t, s, n]: t is the kind ("str", "num",   *)
(* "nan", "inf", "null", "undef"), s the text of a string, n the value of  *)
(* a finite number (or the sign of an infinity).  Finite numbers are       *)
(* integers and sums are exact: IEEE-754 rounding and overflow of doubles  *)
(* are not modelled.                                                       *)
(***************************************************************************)
EXTENDS Integers, Sequences, FiniteSets, TLC

VARIABLES rows, loading, cat, metric, groupBy, topN, sortBy, baseAgg,
          groupedAgg, numericCols, catCols, points, stats,
          xCol, yCol, xMin, xMax, yMin, yMax, trendline,
          series, smooth, normalize, seriesData, xKey, ys, cap, processed,
          field, quoted, csv,
          view, mounted, effects, viewRows, error, late, thrown,
          shownGroups, groupRuns,
          pendingFilter, globalFilter, timers, idle, typed

vars == <<rows, loading, cat, metric, groupBy, topN, sortBy, baseAgg,
          groupedAgg, numericCols, catCols, points, stats,
          xCol, yCol, xMin, xMax, yMin, yMax, trendline,
          series, smooth, normalize, seriesData, xKey, ys, cap, processed,
          field, quoted, csv,
          view, mounted, effects, viewRows, error, late, thrown,
          shownGroups, groupRuns,
          pendingFilter, globalFilter, timers, idle, typed>>

aggVars == <<rows, cat, metric, groupBy, topN, sortBy, baseAgg, groupedAgg>>
classVars == <<loading, numericCols, catCols>>
statVars == <<points, stats>>
factorVars == <<xCol, yCol, xMin, xMax, yMin, yMax, trendline>>
perfVars == <<series, smooth, normalize, seriesData, xKey, ys, cap, processed>>
csvVars == <<field, quoted, csv>>
fetchVars == <<view, mounted, effects, viewRows, error, late, thrown>>
groupVars == <<shownGroups, groupRuns>>
debounceVars == <<pendingFilter, globalFilter, timers, idle, typed>>
liveVars == <<fetchVars, groupVars, debounceVars>>

(* The state of the Factors selectors and range inputs before any input *)
FactorsInitial ==
    /\ xCol = "" /\ yCol = ""
    /\ xMin = "" /\ xMax = "" /\ yMin = "" /\ yMax = ""
    /\ trendline = <<>>

(* useState(500): the row cap the Performance view starts with *)
DefaultCap == 500

(* The state of the Performance controls before any input *)
PerformanceInitial ==
    /\ series = <<>> /\ seriesData = <<>>
    /\ smooth = 0 /\ normalize = "none"
    /\ xKey = "" /\ ys = <<>> /\ cap = DefaultCap
    /\ processed = <<>>

(* No view is mounted, no request is in flight, nothing has been typed *)
LiveInitial ==
    /\ view = "" /\ mounted = FALSE /\ effects = <<>>
    /\ viewRows = [t |-> "array", rows |-> <<>>]
    /\ error = [t |-> "null", s |-> "", n |-> 0]
    /\ late = {} /\ thrown = FALSE
    /\ shownGroups = <<>> /\ groupRuns = <<>>
    /\ pendingFilter = "" /\ globalFilter = ""
    /\ timers = {} /\ idle = 0 /\ typed = 0

(* No export has been made: no field was quoted, no text produced *)
ExportInitial ==
    /\ field = [t |-> "undef", s |-> "", n |-> 0]
    /\ quoted = <<>>
    /\ csv = <<>>

----------------------------------------------------------------------------
(* JavaScript values *)

Str(s) == [t |-> "str", s |-> s, n |-> 0]
Num(n) == [t |-> "num", s |-> "", n |-> n]
NaN == [t |-> "nan", s |-> "", n |-> 0]
Inf(sign) == [t |-> "inf", s |-> "", n |-> sign]
Null == [t |-> "null", s |-> "", n |-> 0]
Undef == [t |-> "undef", s |-> "", n |-> 0]

(* r[k]: a key the object does not have reads as undefined *)
Get(r, k) == IF k \in DOMAIN r THEN r[k] ELSE Undef

(* The decimal strings of the model and the numbers they denote. *)
DecimalStrings ==
    ("-1" :> -1) @@ ("0" :> 0) @@ ("1" :> 1) @@ ("2" :> 2) @@ ("3" :> 3)

(* StringToNumber: the empty string and blank strings are 0, a decimal     *)
(* literal its value, "Infinity" an infinity, anything else NaN.           *)
StringToNumber(s) ==
    IF s \in {"", " "} THEN Num(0)
    ELSE IF s \in DOMAIN DecimalStrings THEN Num(DecimalStrings[s])
    ELSE IF s = "Infinity" THEN Inf(1)
    ELSE IF s = "-Infinity" THEN Inf(-1)
    ELSE NaN

(* Number(v) *)
ToNumber(v) ==
    CASE v.t = "str" -> StringToNumber(v.s)
      [] v.t = "null" -> Num(0)
      [] v.t = "undef" -> NaN
      [] OTHER -> v

(* String(v) *)
JsString(v) ==
    CASE v.t = "str" -> v.s
      [] v.t = "num" ->
           (CHOOSE s \in DOMAIN DecimalStrings : DecimalStrings[s] = v.n)
      [] v.t = "nan" -> "NaN"
      [] v.t = "inf" -> IF v.n > 0 THEN "Infinity" ELSE "-Infinity"
      [] v.t = "null" -> "null"
      [] OTHER -> "undefined"

isNaN(v) == v.t = "nan"

(* isNaN(n) ? NaN : n *)
NaNOr(n) == IF isNaN(n) THEN NaN ELSE n

toNum(v) == NaNOr(ToNumber(v))

isFiniteNum(v) == v.t = "num"

(* safeCat without the test for the empty string *)
safeCat_KeepsEmpty(v) ==
    IF v.t \in {"null", "undef"} THEN "Unknown" ELSE JsString(v)

safeCat(v) ==
    IF v.t \in {"null", "undef"} \/ v = Str("") THEN "Unknown" ELSE JsString(v)

----------------------------------------------------------------------------
(* String orders *)

(* String.prototype.localeCompare on the strings of the model: collation   *)
(* order, letters compared without regard to case first.                   *)
LocaleOrder ==
    <<"", "-1", "0", "1", "2", "3", "A", "b", "c", "Infinity", "NaN", "null",
      "Other", "undefined", "Unknown", "X", "Y">>

(* The default Array.prototype.sort order: UTF-16 code units, so every     *)
(* upper-case letter precedes every lower-case one.                        *)
CodeUnitOrder ==
    <<"", "-1", "0", "1", "2", "3", "A", "Infinity", "NaN", "Other", "Unknown",
      "X", "Y", "b", "c", "null", "undefined">>

Rank(order, s) == CHOOSE i \in 1..Len(order) : order[i] = s

localeCompare(a, b) == Rank(LocaleOrder, a) - Rank(LocaleOrder, b)

----------------------------------------------------------------------------
(* Treatment: aggregation *)

RECURSIVE SumValues(_)
SumValues(s) == IF s = <<>> THEN 0 ELSE s[1].value + SumValues(Tail(s))

(* m.set(key, add): the value already stored is not read *)
MapAdd_Overwrite(m, key, add) ==
    IF \E i \in 1..Len(m) : m[i].name = key
    THEN [i \in 1..Len(m) |->
            IF m[i].name = key THEN [m[i] EXCEPT !.value = add] ELSE m[i]]
    ELSE Append(m, [name |-> key, value |-> add])

(* m.set(key, (m.get(key) || 0) + add) on a Map kept in insertion order *)
MapAdd(m, key, add) ==
    IF \E i \in 1..Len(m) : m[i].name = key
    THEN [i \in 1..Len(m) |->
            IF m[i].name = key THEN [m[i] EXCEPT !.value = @ + add] ELSE m[i]]
    ELSE Append(m, [name |-> key, value |-> add])

MapGet(m, key) ==
    IF \E i \in 1..Len(m) : m[i].name = key
    THEN (CHOOSE e \in {m[i] : i \in 1..Len(m)} : e.name = key).value
    ELSE 0

(* isFiniteNum(addVal) ? addVal : 0 *)
FiniteOrZero(addVal) == IF isFiniteNum(addVal) THEN addVal.n ELSE 0

(* addVal = metric === "count" ? 1 : toNum(r[metric]) *)
AddVal(r, met) ==
    FiniteOrZero(IF met = "count" THEN Num(1) ELSE toNum(Get(r, met)))

RECURSIVE BuildMap(_, _, _, _)
BuildMap(rs, c, met, m) ==
    IF rs = <<>> THEN m
    ELSE BuildMap(Tail(rs), c, met,
                  MapAdd(m, safeCat(Get(rs[1], c)), AddVal(rs[1], met)))

(* The value comparator with its operands exchanged: a.value - b.value *)
CompareEntries_Ascending(mode, a, b) ==
    IF mode = "name" THEN Rank(LocaleOrder, a.name) - Rank(LocaleOrder, b.name)
    ELSE a.value - b.value

(* The comparator handed to entries.sort *)
CompareEntries(mode, a, b) ==
    IF mode = "name" THEN localeCompare(a.name, b.name)
    ELSE b.value - a.value

(* Array.prototype.sort is stable: an element goes after every element     *)
(* that does not compare greater than it.                                  *)
RECURSIVE InsertEntry(_, _, _)
InsertEntry(mode, s, e) ==
    IF s = <<>> THEN <<e>>
    ELSE IF CompareEntries(mode, s[Len(s)], e) <= 0 THEN Append(s, e)
    ELSE Append(InsertEntry(mode, SubSeq(s, 1, Len(s) - 1), e), s[Len(s)])

RECURSIVE SortEntries(_, _)
SortEntries(mode, s) ==
    IF s = <<>> THEN <<>>
    ELSE InsertEntry(mode, SortEntries(mode, SubSeq(s, 1, Len(s) - 1)), s[Len(s)])

(* The collapse with the tail taken one bucket late: slice(topN + 1) *)
Collapse_TailOffByOne(entries, n) ==
    IF n > 0 /\ Len(entries) > n
    THEN LET head == SubSeq(entries, 1, n)
             tail == SubSeq(entries, n + 2, Len(entries))
         IN Append(head, [name |-> "Other", value |-> SumValues(tail)])
    ELSE entries

(* The collapse taken as soon as entries.length >= topN *)
Collapse_AtLeast(entries, n) ==
    IF n > 0 /\ Len(entries) >= n
    THEN LET head == SubSeq(entries, 1, n)
             tail == SubSeq(entries, n + 1, Len(entries))
         IN Append(head, [name |-> "Other", value |-> SumValues(tail)])
    ELSE entries

(* The top-N collapse of the sorted entries *)
Collapse(entries, n) ==
    IF n > 0 /\ Len(entries) > n
    THEN LET head == SubSeq(entries, 1, n)
             tail == SubSeq(entries, n + 1, Len(entries))
             otherSum == SumValues(tail)
         IN Append(head, [name |-> "Other", value |-> otherSum])
    ELSE entries

BaseAgg(rs, c, met, mode, n) ==
    IF c = "" THEN <<>>
    ELSE Collapse(SortEntries(mode, BuildMap(rs, c, met, <<>>)), n)

(* groupedAgg: the category x group matrix.  m maps a category to its     *)
(* rowMap, a Map from group to value; both are kept in insertion order.    *)
AddToGrouped(m, key, grp, add) ==
    IF \E i \in 1..Len(m) : m[i].name = key
    THEN [i \in 1..Len(m) |->
            IF m[i].name = key
            THEN [m[i] EXCEPT !.parts = MapAdd(@, grp, add)]
            ELSE m[i]]
    ELSE Append(m, [name |-> key, parts |-> MapAdd(<<>>, grp, add)])

RECURSIVE BuildGrouped(_, _, _, _, _)
BuildGrouped(rs, c, gb, met, m) ==
    IF rs = <<>> THEN m
    ELSE BuildGrouped(Tail(rs), c, gb, met,
                      AddToGrouped(m, safeCat(Get(rs[1], c)),
                                   safeCat(Get(rs[1], gb)), AddVal(rs[1], met)))

(* groupsSet.add(grp) *)
AddGroup(seen, grp) ==
    IF \E i \in 1..Len(seen) : seen[i] = grp THEN seen ELSE Append(seen, grp)

(* groupsSet, in insertion order *)
RECURSIVE GroupsSeen(_, _, _)
GroupsSeen(rs, gb, seen) ==
    IF rs = <<>> THEN seen
    ELSE GroupsSeen(Tail(rs), gb, AddGroup(seen, safeCat(Get(rs[1], gb))))

(* .map(([k, mm]) => ({ name: k, total: ..., parts: mm })) *)
WithTotals(built) ==
    [i \in 1..Len(built) |->
       [name |-> built[i].name,
        total |-> SumValues(built[i].parts),
        parts |-> built[i].parts]]

(* .sort((a, b) => b.total - a.total), stable *)
RECURSIVE InsertCat(_, _)
InsertCat(s, e) ==
    IF s = <<>> THEN <<e>>
    ELSE IF e.total - s[Len(s)].total <= 0 THEN Append(s, e)
    ELSE Append(InsertCat(SubSeq(s, 1, Len(s) - 1), e), s[Len(s)])

RECURSIVE SortCats(_)
SortCats(s) ==
    IF s = <<>> THEN <<>>
    ELSE InsertCat(SortCats(SubSeq(s, 1, Len(s) - 1)), s[Len(s)])

(* Array.from(groupsSet.values()).sort(): the default order of strings *)
RECURSIVE InsertGroup(_, _)
InsertGroup(s, g) ==
    IF s = <<>> THEN <<g>>
    ELSE IF Rank(CodeUnitOrder, s[Len(s)]) <= Rank(CodeUnitOrder, g)
         THEN Append(s, g)
    ELSE Append(InsertGroup(SubSeq(s, 1, Len(s) - 1), g), s[Len(s)])

RECURSIVE SortGroups(_)
SortGroups(s) ==
    IF s = <<>> THEN <<>>
    ELSE InsertGroup(SortGroups(SubSeq(s, 1, Len(s) - 1)), s[Len(s)])

(* otherMap.set(g, val): a later tail category replaces an earlier one *)
RECURSIVE MergeParts_Overwrite(_, _)
MergeParts_Overwrite(parts, m) ==
    IF parts = <<>> THEN m
    ELSE MergeParts_Overwrite(Tail(parts),
                              MapAdd_Overwrite(m, parts[1].name, parts[1].value))

(* otherMap: the parts of the tail categories added up group by group *)
RECURSIVE MergeParts(_, _)
MergeParts(parts, m) ==
    IF parts = <<>> THEN m
    ELSE MergeParts(Tail(parts), MapAdd(m, parts[1].name, parts[1].value))

RECURSIVE OtherMap(_, _)
OtherMap(tail, m) ==
    IF tail = <<>> THEN m
    ELSE OtherMap(Tail(tail), MergeParts(tail[1].parts, m))

(* { name: "Other", total: ..., parts: otherMap } *)
OtherCat(otherMap) ==
    [name |-> "Other", total |-> SumValues(otherMap), parts |-> otherMap]

(* The top-N collapse of the sorted categories *)
CollapseCats(cats, n) ==
    IF n > 0 /\ Len(cats) > n
    THEN Append(SubSeq(cats, 1, n),
                OtherCat(OtherMap(SubSeq(cats, n + 1, Len(cats)), <<>>)))
    ELSE cats

(* cats: the categories sorted by total, the tail collapsed *)
GroupedCats(rs, c, gb, met, n) ==
    CollapseCats(SortCats(WithTotals(BuildGrouped(rs, c, gb, met, <<>>))), n)

(* row = { [cat]: c.name }; for (const g of groups) row[g] = ...           *)
(* An object is a function from its keys; a later assignment to a key      *)
(* replaces the earlier value.                                             *)
SetField(row, k, v) ==
    [f \in DOMAIN row \cup {k} |-> IF f = k THEN v ELSE row[f]]

RECURSIVE FillRow(_, _, _)
FillRow(row, groups, parts) ==
    IF groups = <<>> THEN row
    ELSE FillRow(SetField(row, groups[1], Num(MapGet(parts, groups[1]))),
                 Tail(groups), parts)

(* cats.map((c) => row), with the sorted groups *)
RowsOut(cats, groups, c) ==
    [data |-> [i \in 1..Len(cats) |->
                 FillRow(SetField(<<>>, c, Str(cats[i].name)),
                         groups, cats[i].parts)],
     groups |-> groups]

GroupedAgg(rs, c, gb, met, n) ==
    IF c = "" \/ gb = "" THEN [data |-> <<>>, groups |-> <<>>]
    ELSE RowsOut(GroupedCats(rs, c, gb, met, n),
                 SortGroups(GroupsSeen(rs, gb, <<>>)), c)

----------------------------------------------------------------------------
(* The aggregation engine driven over its input domain *)

MaxRows == 3
MaxTopN == 2

(* Rows of the treatment dataset: a category column c, a second            *)
(* categorical column g and a metric column m.                             *)
SampleRows ==
    { [c |-> Str("A"), g |-> Str("X"), m |-> Num(2)],
      [c |-> Str("b"), g |-> Str("Y"), m |-> Str("3")],
      [c |-> Str("Other"), g |-> Str("X"), m |-> Num(-1)],
      [c |-> Str(""), g |-> Str("c"), m |-> Str("x")],
      [c |-> Null, m |-> Str("Infinity")],
      [c |-> Str("A"), g |-> Str("Y"), m |-> Num(1)],
      [c |-> Num(1), g |-> Str("X"), m |-> Str("")] }

RowSets == UNION { [1..k -> SampleRows] : k \in 0..MaxRows }

CatChoices == {"", "c"}
MetricChoices == {"count", "m"}
GroupChoices == {"", "g"}
TopNChoices == 0..MaxTopN
SortChoices == {"value", "name"}

(* rows is any dataset that has arrived.  The controls start unselected    *)
(* and then take every value of the domain of the aggregation, not only    *)
(* the values the selectors offer (Top N offers 5, 8, 12 and 0).           *)
InitAgg ==
    /\ rows \in RowSets
    /\ loading = FALSE
    /\ cat = ""
    /\ metric = "count"
    /\ groupBy = ""
    /\ topN = 0
    /\ sortBy = "value"
    /\ baseAgg = BaseAgg(rows, cat, metric, sortBy, topN)
    /\ groupedAgg = GroupedAgg(rows, cat, groupBy, metric, topN)
    /\ numericCols = <<>>
    /\ catCols = <<>>
    /\ points = <<>>
    /\ stats = <<>>
    /\ FactorsInitial /\ PerformanceInitial /\ ExportInitial /\ LiveInitial

(* Each setter is followed by the render that recomputes the memoized      *)
(* aggregates whose dependency list names the changed state.               *)
setCat ==
    /\ \E v \in CatChoices : cat' = v
    /\ UNCHANGED <<rows, metric, groupBy, topN, sortBy>>
    /\ baseAgg' = BaseAgg(rows, cat', metric, sortBy, topN)
    /\ groupedAgg' = GroupedAgg(rows, cat', groupBy, metric, topN)
    /\ UNCHANGED <<classVars, statVars, factorVars, perfVars, csvVars, liveVars>>

setMetric ==
    /\ \E v \in MetricChoices : metric' = v
    /\ UNCHANGED <<rows, cat, groupBy, topN, sortBy>>
    /\ baseAgg' = BaseAgg(rows, cat, metric', sortBy, topN)
    /\ groupedAgg' = GroupedAgg(rows, cat, groupBy, metric', topN)
    /\ UNCHANGED <<classVars, statVars, factorVars, perfVars, csvVars, liveVars>>

setGroupBy ==
    /\ \E v \in GroupChoices : groupBy' = v
    /\ UNCHANGED <<rows, cat, metric, topN, sortBy, baseAgg>>
    /\ groupedAgg' = GroupedAgg(rows, cat, groupBy', metric, topN)
    /\ UNCHANGED <<classVars, statVars, factorVars, perfVars, csvVars, liveVars>>

setTopN ==
    /\ \E v \in TopNChoices : topN' = v
    /\ UNCHANGED <<rows, cat, metric, groupBy, sortBy>>
    /\ baseAgg' = BaseAgg(rows, cat, metric, sortBy, topN')
    /\ groupedAgg' = GroupedAgg(rows, cat, groupBy, metric, topN')
    /\ UNCHANGED <<classVars, statVars, factorVars, perfVars, csvVars, liveVars>>

setSortBy ==
    /\ \E v \in SortChoices : sortBy' = v
    /\ UNCHANGED <<rows, cat, metric, groupBy, topN, groupedAgg>>
    /\ baseAgg' = BaseAgg(rows, cat, metric, sortBy', topN)
    /\ UNCHANGED <<classVars, statVars, factorVars, perfVars, csvVars, liveVars>>

(* The flat aggregation: no second dimension is selected *)
NextAgg == setCat \/ setMetric \/ setTopN \/ setSortBy

SpecAgg == InitAgg /\ [][NextAgg]_vars

(* The grouped aggregation, which does not read the sort mode *)
NextGrouped == setCat \/ setMetric \/ setTopN \/ setGroupBy

SpecGrouped == InitAgg /\ [][NextGrouped]_vars

----------------------------------------------------------------------------
(* Column classification *)

(* Object.keys: the keys of an object in the order they were written *)
KeyOrder == <<"a", "b">>
ObjectKeys(r) == SelectSeq(KeyOrder, LAMBDA k : k \in DOMAIN r)

Includes(s, k) == \E i \in 1..Len(s) : s[i] = k

(* rows.every((r) => r[k] === "" || !isNaN(Number(r[k]))) *)
EveryNumeric(rs, k) ==
    \A i \in 1..Len(rs) :
      Get(rs[i], k) = Str("") \/ ~isNaN(ToNumber(Get(rs[i], k)))

(* Treatment and Factors: { numericCols, catCols } *)
ClassifyColumns(rs) ==
    IF Len(rs) = 0 THEN [numericCols |-> <<>>, catCols |-> <<>>]
    ELSE LET keys == ObjectKeys(rs[1])
             numeric == SelectSeq(keys, LAMBDA k : EveryNumeric(rs, k))
             categorical == SelectSeq(keys, LAMBDA k : ~Includes(numeric, k))
         IN [numericCols |-> numeric, catCols |-> categorical]

(* Performance: numericCols only *)
PerformanceNumeric(rs) ==
    IF Len(rs) = 0 THEN <<>>
    ELSE SelectSeq(ObjectKeys(rs[1]), LAMBDA k : EveryNumeric(rs, k))

(* Explore: one column per key of the first row, sorted as "alphanumeric"  *)
(* when numeric and as "text" otherwise.                                   *)
ExploreColumns(rs) ==
    LET keys == IF Len(rs) > 0 THEN ObjectKeys(rs[1]) ELSE <<>>
    IN [numericCols |-> SelectSeq(keys, LAMBDA k : EveryNumeric(rs, k)),
        catCols |-> SelectSeq(keys, LAMBDA k : ~EveryNumeric(rs, k))]

Views == {"Treatment", "Factors", "Performance", "Explore"}

NumericColsOf(rs) ==
    [v \in Views |->
       CASE v = "Performance" -> PerformanceNumeric(rs)
         [] v = "Explore" -> ExploreColumns(rs).numericCols
         [] OTHER -> ClassifyColumns(rs).numericCols]

CatColsOf(rs) ==
    [v \in Views \ {"Performance"} |->
       IF v = "Explore" THEN ExploreColumns(rs).catCols
       ELSE ClassifyColumns(rs).catCols]

MaxClassRows == 2

(* The cells of a dataset: empty, numeric, non-numeric and "Infinity"      *)
(* strings and null; a key may also be missing from a row.                 *)
CellValues == {Str(""), Str("1"), Str("x"), Str("Infinity"), Null}

ClassRows ==
    UNION { [K -> CellValues] : K \in SUBSET {"a", "b"} }

ClassRowSets == UNION { [1..k -> ClassRows] : k \in 0..MaxClassRows }

InitClassify ==
    /\ rows = <<>>
    /\ loading = TRUE
    /\ numericCols = NumericColsOf(rows)
    /\ catCols = CatColsOf(rows)
    /\ cat = "" /\ metric = "count" /\ groupBy = "" /\ topN = 0
    /\ sortBy = "value" /\ baseAgg = <<>>
    /\ groupedAgg = [data |-> <<>>, groups |-> <<>>]
    /\ points = <<>>
    /\ stats = <<>>
    /\ FactorsInitial /\ PerformanceInitial /\ ExportInitial /\ LiveInitial

(* The fetch resolves: setRows(data), setLoading(false), and the render    *)
(* that classifies the columns of the new rows.                            *)
setRows ==
    /\ loading
    /\ \E data \in ClassRowSets : rows' = data
    /\ loading' = FALSE
    /\ numericCols' = NumericColsOf(rows')
    /\ catCols' = CatColsOf(rows')
    /\ UNCHANGED <<cat, metric, groupBy, topN, sortBy, baseAgg, groupedAgg,
                   statVars, factorVars, perfVars, csvVars, liveVars>>

NextClassify == setRows

SpecClassify == InitClassify /\ [][NextClassify]_vars

----------------------------------------------------------------------------
(* Factors: linearStats *)

(* The numbers linearStats returns: a quotient num / den of integers       *)
(* (den > 0, in lowest terms), NaN, or an infinity of sign num.            *)
RECURSIVE Gcd(_, _)
Gcd(a, b) == IF b = 0 THEN a ELSE Gcd(b, a % b)

Abs(a) == IF a < 0 THEN -a ELSE a

QNaN == [t |-> "nan", num |-> 0, den |-> 1]
QInf(sign) == [t |-> "inf", num |-> sign, den |-> 0]
Quot(n, d) ==
    LET g == Gcd(Abs(n), Abs(d))
        sg == IF d < 0 THEN -1 ELSE 1
    IN [t |-> "num", num |-> sg * (n \div g), den |-> sg * (d \div g)]
QInt(n) == Quot(n, 1)

Sign(a) == IF a > 0 THEN 1 ELSE IF a < 0 THEN -1 ELSE 0

(* a * b *)
QMul(a, b) ==
    CASE a.t = "nan" \/ b.t = "nan" -> QNaN
      [] a.t = "inf" \/ b.t = "inf" ->
           IF Sign(a.num) * Sign(b.num) = 0 THEN QNaN
           ELSE QInf(Sign(a.num) * Sign(b.num))
      [] OTHER -> Quot(a.num * b.num, a.den * b.den)

(* a - b *)
QSub(a, b) ==
    CASE a.t = "nan" \/ b.t = "nan" -> QNaN
      [] a.t = "inf" /\ b.t = "inf" ->
           IF a.num = b.num THEN QNaN ELSE a
      [] a.t = "inf" -> a
      [] b.t = "inf" -> QInf(-b.num)
      [] OTHER -> Quot(a.num * b.den - b.num * a.den, a.den * b.den)

(* a / b: a finite number over zero is an infinity, 0 / 0 is NaN *)
QDiv(a, b) ==
    CASE a.t = "nan" \/ b.t = "nan" -> QNaN
      [] a.t = "inf" /\ b.t = "inf" -> QNaN
      [] a.t = "inf" -> QInf(IF b.num < 0 THEN -a.num ELSE a.num)
      [] b.t = "inf" -> QInt(0)
      [] b.num = 0 -> IF a.num = 0 THEN QNaN ELSE QInf(Sign(a.num))
      [] OTHER -> Quot(a.num * b.den, a.den * b.num)

(* x || NaN: 0 and NaN are falsy *)
OrNaN(x) == IF x.t = "nan" \/ (x.t = "num" /\ x.num = 0) THEN QNaN ELSE x

(* terms.reduce((a, v) => a + v, 0) *)
RECURSIVE SumSeq(_)
SumSeq(s) == IF s = <<>> THEN 0 ELSE s[1] + SumSeq(Tail(s))


(* denR === 0 ? 0 : numR / denR *)
PearsonR_ZeroWhenUndefined(numR, radicand) ==
    IF radicand <= 0 THEN [t |-> "num", num |-> 0, rad |-> 1]
    ELSE [t |-> "num", num |-> numR, rad |-> radicand]

(* denR === 0 ? NaN : numR / denR with denR = Math.sqrt(radicand).  The    *)
(* quotient by an irrational root is kept as [num, rad]: num / sqrt(rad).  *)
PearsonR(numR, radicand) ==
    IF radicand = 0 THEN [t |-> "nan", num |-> 0, rad |-> 0]
    ELSE IF radicand < 0 THEN [t |-> "nan", num |-> 0, rad |-> 0]
    ELSE [t |-> "num", num |-> numR, rad |-> radicand]

(* r, slope and intercept from the sums over the n valid pairs *)
StatsFromSums(n, sx, sy, sxx, syy, sxy, slope) ==
    [r |-> PearsonR(n * sxy - sx * sy,
                    (n * sxx - sx * sx) * (n * syy - sy * sy)),
     slope |-> slope,
     intercept |-> QDiv(QSub(QInt(sy), QMul(slope, QInt(sx))), QInt(n))]

(* (sxy - sx * sy) / (sxx - sx * sx || NaN) *)
Slope_WithoutCount(n, sx, sy, sxx, sxy) ==
    QDiv(QInt(sxy - sx * sy), OrNaN(QInt(sxx - sx * sx)))

(* (n * sxy - sx * sy) / (n * sxx - sx * sx || NaN) *)
Slope(n, sx, sy, sxx, sxy) ==
    QDiv(QInt(n * sxy - sx * sy), OrNaN(QInt(n * sxx - sx * sx)))

StatsOfValid(pts, n, xv, yv) ==
    IF n < 2
    THEN [r |-> [t |-> "nan", num |-> 0, rad |-> 0],
          slope |-> QNaN, intercept |-> QNaN]
    ELSE StatsFromSums(n, SumSeq(xv), SumSeq(yv),
                       SumSeq([i \in 1..n |-> xv[i] * xv[i]]),
                       SumSeq([i \in 1..n |-> yv[i] * yv[i]]),
                       SumSeq([i \in 1..n |-> xv[i] * yv[i]]),
                       Slope(n, SumSeq(xv), SumSeq(yv),
                             SumSeq([i \in 1..n |-> xv[i] * xv[i]]),
                             SumSeq([i \in 1..n |-> xv[i] * yv[i]])))

(* pts = points.filter(([x, y]) => isFiniteNum(x) && isFiniteNum(y)) *)
ValidPairs(ps) ==
    SelectSeq(ps, LAMBDA p : isFiniteNum(p[1]) /\ isFiniteNum(p[2]))

Coordinates(pts, k) == [i \in 1..Len(pts) |-> pts[i][k].n]

StatsOf(pts) ==
    StatsOfValid(pts, Len(pts), Coordinates(pts, 1), Coordinates(pts, 2))

linearStats(ps) == StatsOf(ValidPairs(ps))

MaxPoints == 3

(* Coordinates as toNum yields them: finite numbers, NaN and infinities *)
XValues == {Num(1), Num(2), Num(3), NaN}
YValues == {Num(2), Num(4), Num(6), Inf(1)}

InitStats ==
    /\ points = <<>>
    /\ stats = linearStats(points)
    /\ rows = <<>> /\ loading = FALSE
    /\ numericCols = <<>> /\ catCols = <<>>
    /\ cat = "" /\ metric = "count" /\ groupBy = "" /\ topN = 0
    /\ sortBy = "value" /\ baseAgg = <<>>
    /\ groupedAgg = [data |-> <<>>, groups |-> <<>>]
    /\ FactorsInitial /\ PerformanceInitial /\ ExportInitial /\ LiveInitial

(* The filtered point set grows by a point and the statistics are          *)
(* recomputed from it.                                                     *)
addPoint ==
    /\ Len(points) < MaxPoints
    /\ \E x \in XValues, y \in YValues : points' = Append(points, <<x, y>>)
    /\ stats' = linearStats(points')
    /\ UNCHANGED <<aggVars, classVars, factorVars, perfVars, csvVars, liveVars>>

NextStats == addPoint

SpecStats == InitStats /\ [][NextStats]_vars

----------------------------------------------------------------------------
(* Factors view: selectors, range filter and trend line *)

QOf(v) ==
    CASE v.t = "num" -> QInt(v.n)
      [] v.t = "inf" -> QInf(v.n)
      [] OTHER -> QNaN

(* a + b *)
QAdd(a, b) ==
    CASE a.t = "nan" \/ b.t = "nan" -> QNaN
      [] a.t = "inf" /\ b.t = "inf" ->
           IF a.num = b.num THEN a ELSE QNaN
      [] a.t = "inf" -> a
      [] b.t = "inf" -> b
      [] OTHER -> Quot(a.num * b.den + b.num * a.den, a.den * b.den)

(* rows.map((r) => ({x: toNum(r[x]), y: toNum(r[y])}))                     *)
(*     .filter((p) => isFiniteNum(p.x) && isFiniteNum(p.y))                *)
basePoints(rs, x, y) ==
    IF x = "" \/ y = "" THEN <<>>
    ELSE SelectSeq([i \in 1..Len(rs) |->
                      <<toNum(Get(rs[i], x)), toNum(Get(rs[i], y))>>],
                   LAMBDA p : isFiniteNum(p[1]) /\ isFiniteNum(p[2]))

FiniteOf(arr) == {arr[i].n : i \in {j \in 1..Len(arr) : isFiniteNum(arr[j])}}

(* arr.reduce((m, v) => (isFiniteNum(v) && v < m ? v : m), Infinity) *)
finiteMin(arr) ==
    IF FiniteOf(arr) = {} THEN Inf(1)
    ELSE Num(CHOOSE m \in FiniteOf(arr) : \A k \in FiniteOf(arr) : m <= k)

(* arr.reduce((m, v) => (isFiniteNum(v) && v > m ? v : m), -Infinity) *)
finiteMax(arr) ==
    IF FiniteOf(arr) = {} THEN Inf(-1)
    ELSE Num(CHOOSE m \in FiniteOf(arr) : \A k \in FiniteOf(arr) : m >= k)

Column(bp, k) == [i \in 1..Len(bp) |-> bp[i][k]]

domains(bp) ==
    [xMin |-> finiteMin(Column(bp, 1)), xMax |-> finiteMax(Column(bp, 1)),
     yMin |-> finiteMin(Column(bp, 2)), yMax |-> finiteMax(Column(bp, 2))]

(* A range input that the effect on [x, y] leaves as it is *)
RangeText_Kept(lo, hi, bound, text) == text

(* The effect on [x, y]: a range input takes the text of the domain bound  *)
(* when the domain is not empty and keeps its text otherwise.              *)
RangeText(lo, hi, bound, text) ==
    IF lo # Inf(1) /\ hi # Inf(-1) THEN JsString(bound) ELSE text

(* p >= bound and p <= bound for a finite p and a bound that is not NaN *)
AtLeast(p, bound) ==
    IF bound.t = "inf" THEN bound.n < 0 ELSE p.n >= bound.n

AtMost(p, bound) ==
    IF bound.t = "inf" THEN bound.n > 0 ELSE p.n <= bound.n

(* (isNaN(min) || p >= min) && (isNaN(max) || p <= max) *)
Within(p, min, max) ==
    /\ (isNaN(min) \/ AtLeast(p, min))
    /\ (isNaN(max) \/ AtMost(p, max))

filtered(bp, xmin, xmax, ymin, ymax) ==
    SelectSeq(bp, LAMBDA p :
        /\ Within(p[1], ToNumber(Str(xmin)), ToNumber(Str(xmax)))
        /\ Within(p[2], ToNumber(Str(ymin)), ToNumber(Str(ymax))))

TrendPoint(st, at) ==
    [x |-> QOf(at), y |-> QAdd(QMul(st.slope, QOf(at)), st.intercept)]

(* The trend line drawn whatever the statistics are *)
Trendline_Unguarded(st, xmin, xmax) ==
    IF isNaN(ToNumber(Str(xmin))) \/ isNaN(ToNumber(Str(xmax))) THEN <<>>
    ELSE <<TrendPoint(st, ToNumber(Str(xmin))),
           TrendPoint(st, ToNumber(Str(xmax)))>>

Trendline(st, xmin, xmax) ==
    IF st.slope.t # "num" \/ st.intercept.t # "num" THEN <<>>
    ELSE IF isNaN(ToNumber(Str(xmin))) \/ isNaN(ToNumber(Str(xmax)))
    THEN <<>>
    ELSE <<TrendPoint(st, ToNumber(Str(xmin))),
           TrendPoint(st, ToNumber(Str(xmax)))>>

MaxFactorRows == 2

(* Rows of the factors dataset: two numeric columns a and b, with numbers, *)
(* numeric strings and a value that is not finite.                         *)
FactorRows ==
    { [a |-> Num(1), b |-> Num(2)],
      [a |-> Num(2), b |-> Str("1")],
      [a |-> Str("Infinity"), b |-> Num(3)] }

FactorRowSets == UNION { [1..k -> FactorRows] : k \in 0..MaxFactorRows }

(* What is typed into the range inputs: text that is not a number, a       *)
(* number, an infinity, and the input cleared again.                       *)
XMinTexts == {"x", "2"}
XMaxTexts == {"2", "Infinity"}
YMinTexts == {"", "x"}
YMaxTexts == {"2"}

ColumnSet(cols) == {cols[i] : i \in 1..Len(cols)}

(* numericCols[k] || "" *)
At(s, k) == IF k <= Len(s) THEN s[k] ELSE ""

InitFactors ==
    /\ rows = <<>>
    /\ loading = TRUE
    /\ FactorsInitial
    /\ points = <<>>
    /\ stats = linearStats(points)
    /\ numericCols = <<>> /\ catCols = <<>>
    /\ cat = "" /\ metric = "count" /\ groupBy = "" /\ topN = 0
    /\ sortBy = "value" /\ baseAgg = <<>>
    /\ groupedAgg = [data |-> <<>>, groups |-> <<>>]
    /\ PerformanceInitial /\ ExportInitial /\ LiveInitial

(* The render after a state change: the range inputs have their new text,  *)
(* the filtered points, their statistics and the trend line follow.        *)
Render(bp) ==
    /\ points' = filtered(bp, xMin', xMax', yMin', yMax')
    /\ stats' = linearStats(points')
    /\ trendline' = Trendline(stats', xMin', xMax')

(* The effect on [x, y] after the columns changed *)
ResetRanges(bp) ==
    /\ xMin' = RangeText(domains(bp).xMin, domains(bp).xMax, domains(bp).xMin, xMin)
    /\ xMax' = RangeText(domains(bp).xMin, domains(bp).xMax, domains(bp).xMax, xMax)
    /\ yMin' = RangeText(domains(bp).yMin, domains(bp).yMax, domains(bp).yMin, yMin)
    /\ yMax' = RangeText(domains(bp).yMin, domains(bp).yMax, domains(bp).yMax, yMax)

(* The fetch resolves: setRows(data), the defaults effect selects the      *)
(* first two numeric columns, the range inputs are initialised.            *)
loadFactors ==
    /\ loading
    /\ \E data \in FactorRowSets : rows' = data
    /\ loading' = FALSE
    /\ xCol' = IF Len(rows') = 0 THEN xCol
               ELSE At(ClassifyColumns(rows').numericCols, 1)
    /\ yCol' = IF Len(rows') = 0 THEN yCol
               ELSE At(ClassifyColumns(rows').numericCols, 2)
    /\ ResetRanges(basePoints(rows', xCol', yCol'))
    /\ Render(basePoints(rows', xCol', yCol'))
    /\ UNCHANGED <<cat, metric, groupBy, topN, sortBy, baseAgg, groupedAgg,
                   numericCols, catCols, perfVars, csvVars, liveVars>>

FactorsFrame ==
    UNCHANGED <<rows, loading, cat, metric, groupBy, topN, sortBy, baseAgg,
                groupedAgg, numericCols, catCols, perfVars, csvVars, liveVars>>

(* The X selector: onChange fires for an option other than the selected   *)
(* one; the effect on [x, y] follows the render.                           *)
setX ==
    /\ ~loading
    /\ \E v \in {""} \cup ColumnSet(ClassifyColumns(rows).numericCols) :
         v # xCol /\ xCol' = v
    /\ yCol' = yCol
    /\ ResetRanges(basePoints(rows, xCol', yCol'))
    /\ Render(basePoints(rows, xCol', yCol'))
    /\ FactorsFrame

setY ==
    /\ ~loading
    /\ \E v \in {""} \cup ColumnSet(ClassifyColumns(rows).numericCols) :
         v # yCol /\ yCol' = v
    /\ xCol' = xCol
    /\ ResetRanges(basePoints(rows, xCol', yCol'))
    /\ Render(basePoints(rows, xCol', yCol'))
    /\ FactorsFrame

setXMin ==
    /\ ~loading
    /\ \E v \in XMinTexts : xMin' = v
    /\ UNCHANGED <<xCol, yCol, xMax, yMin, yMax>>
    /\ Render(basePoints(rows, xCol, yCol))
    /\ FactorsFrame

setXMax ==
    /\ ~loading
    /\ \E v \in XMaxTexts : xMax' = v
    /\ UNCHANGED <<xCol, yCol, xMin, yMin, yMax>>
    /\ Render(basePoints(rows, xCol, yCol))
    /\ FactorsFrame

setYMin ==
    /\ ~loading
    /\ \E v \in YMinTexts : yMin' = v
    /\ UNCHANGED <<xCol, yCol, xMin, xMax, yMax>>
    /\ Render(basePoints(rows, xCol, yCol))
    /\ FactorsFrame

setYMax ==
    /\ ~loading
    /\ \E v \in YMaxTexts : yMax' = v
    /\ UNCHANGED <<xCol, yCol, xMin, xMax, yMin>>
    /\ Render(basePoints(rows, xCol, yCol))
    /\ FactorsFrame

NextFactors ==
    loadFactors \/ setX \/ setY \/ setXMin \/ setXMax \/ setYMin \/ setYMax

SpecFactors == InitFactors /\ [][NextFactors]_vars

----------------------------------------------------------------------------
(* Performance view: smoothing and normalization of a series.  The samples *)
(* are the rationals of linearStats: toNum yields a finite number, NaN or  *)
(* an infinity, a moving average yields a quotient.                        *)

isFiniteQ(q) == q.t = "num"

QLess(a, b) == a.num * b.den < b.num * a.den

FiniteIndexes(arr) == {i \in 1..Len(arr) : isFiniteQ(arr[i])}

(* for (const v of arr) if (isFiniteNum(v)) return v; return NaN; *)
firstFinite(arr) ==
    IF FiniteIndexes(arr) = {} THEN QNaN
    ELSE arr[CHOOSE i \in FiniteIndexes(arr) :
               \A k \in FiniteIndexes(arr) : i <= k]

(* finiteMin and finiteMax of the Performance view *)
finiteMinQ(arr) ==
    IF FiniteIndexes(arr) = {} THEN QInf(1)
    ELSE arr[CHOOSE i \in FiniteIndexes(arr) :
               \A k \in FiniteIndexes(arr) : ~QLess(arr[k], arr[i])]

finiteMaxQ(arr) ==
    IF FiniteIndexes(arr) = {} THEN QInf(-1)
    ELSE arr[CHOOSE i \in FiniteIndexes(arr) :
               \A k \in FiniteIndexes(arr) : ~QLess(arr[i], arr[k])]

(* valid.reduce((a, b) => a + b, 0) *)
RECURSIVE QSumSeq(_)
QSumSeq(q) == IF q = <<>> THEN QInt(0) ELSE QAdd(q[1], QSumSeq(Tail(q)))

(* q after sample i was pushed and the oldest one shifted out *)
Window(arr, i, win) == SubSeq(arr, IF i > win THEN i - win + 1 ELSE 1, i)

Valid(q) == SelectSeq(q, isFiniteQ)

(* the mean of whatever finite samples the window holds *)
WindowMean_Partial(valid, win) ==
    IF Len(valid) > 0 THEN QDiv(QSumSeq(valid), QInt(Len(valid))) ELSE QNaN

(* valid.length === win ? valid.reduce((a, b) => a + b, 0) / win : NaN *)
WindowMean(valid, win) ==
    IF Len(valid) = win THEN QDiv(QSumSeq(valid), QInt(win)) ELSE QNaN

movingAvg(arr, win) ==
    IF win <= 1 THEN arr
    ELSE [i \in 1..Len(arr) |-> WindowMean(Valid(Window(arr, i, win)), win)]

(* isFiniteNum(v) ? (v / base) * 100 : NaN *)
IndexValue(v, base) ==
    IF isFiniteQ(v) THEN QMul(QDiv(v, base), QInt(100)) ELSE QNaN

NormalizeIndex(arr) ==
    IF isFiniteQ(firstFinite(arr))
    THEN [i \in 1..Len(arr) |-> IndexValue(arr[i], firstFinite(arr))]
    ELSE arr

(* rng > 0 *)
QPositive(q) == q.t # "nan" /\ q.num > 0

(* isFiniteNum(v) && rng > 0 ? v / rng : NaN *)
MinMaxValue_NoOffset(v, mn, rng) ==
    IF isFiniteQ(v) /\ QPositive(rng) THEN QDiv(v, rng) ELSE QNaN

(* isFiniteNum(v) && rng > 0 ? (v - mn) / rng : NaN *)
MinMaxValue(v, mn, rng) ==
    IF isFiniteQ(v) /\ QPositive(rng) THEN QDiv(QSub(v, mn), rng) ELSE QNaN

NormalizeMinMax(arr) ==
    [i \in 1..Len(arr) |->
       MinMaxValue(arr[i], finiteMinQ(arr),
                   QSub(finiteMaxQ(arr), finiteMinQ(arr)))]

Normalize(mode, arr) ==
    CASE mode = "index" -> NormalizeIndex(arr)
      [] mode = "minmax" -> NormalizeMinMax(arr)
      [] OTHER -> arr

Smooth(arr, win) == IF win > 0 THEN movingAvg(arr, win) ELSE arr

(* normalization before smoothing *)
TransformSeries_NormalizeFirst(arr, win, mode) ==
    Smooth(Normalize(mode, arr), win)

(* seriesData[key] after the smoothing and normalization steps *)
TransformSeries(arr, win, mode) == Normalize(mode, Smooth(arr, win))

MaxSeries == 3
MaxWindow == 2

(* Samples as toNum yields them *)
SeriesValues == {QInt(0), QInt(2), QInt(4), QInt(-2), QNaN, QInf(1)}

SeriesSets == UNION { [1..k -> SeriesValues] : k \in 0..MaxSeries }

SmoothChoices == 0..MaxWindow
NormalizeChoices == {"none", "index", "minmax"}

(* Any series of one key, the controls as the view starts them; smooth     *)
(* takes every window up to MaxWindow, not only the offered 3, 5, 7, 14.   *)
InitSeries ==
    /\ series \in SeriesSets
    /\ smooth = 0
    /\ normalize = "none"
    /\ seriesData = TransformSeries(series, smooth, normalize)
    /\ xKey = "" /\ ys = <<>> /\ cap = DefaultCap /\ processed = <<>>
    /\ rows = <<>> /\ loading = FALSE
    /\ numericCols = <<>> /\ catCols = <<>>
    /\ cat = "" /\ metric = "count" /\ groupBy = "" /\ topN = 0
    /\ sortBy = "value" /\ baseAgg = <<>>
    /\ groupedAgg = [data |-> <<>>, groups |-> <<>>]
    /\ points = <<>> /\ stats = <<>>
    /\ FactorsInitial /\ ExportInitial /\ LiveInitial

SeriesFrame ==
    UNCHANGED <<aggVars, classVars, statVars, factorVars, csvVars,
                liveVars, series, xKey, ys, cap, processed>>

setSmoothOfSeries ==
    /\ \E v \in SmoothChoices : smooth' = v
    /\ normalize' = normalize
    /\ seriesData' = TransformSeries(series, smooth', normalize')
    /\ SeriesFrame

setNormalizeOfSeries ==
    /\ \E v \in NormalizeChoices : normalize' = v
    /\ smooth' = smooth
    /\ seriesData' = TransformSeries(series, smooth', normalize')
    /\ SeriesFrame

NextSeries == setSmoothOfSeries \/ setNormalizeOfSeries

SpecSeries == InitSeries /\ [][NextSeries]_vars

----------------------------------------------------------------------------
(* Performance view: the processed rows *)

(* The date texts of the model: date-only ISO texts, which new Date reads  *)
(* as UTC and toISOString().slice(0, 10) gives back.                       *)
DateTexts == {"2020-01-01"}

(* an ISO date when the text parses as a date, else the number, else the   *)
(* text                                                                    *)
parseX(v) ==
    IF JsString(v) \in DateTexts THEN Str(JsString(v))
    ELSE IF isNaN(ToNumber(v)) THEN Str(JsString(v))
    ELSE ToNumber(v)

(* arr.slice(0, n) *)
Slice(arr, n) == SubSeq(arr, 1, IF n < Len(arr) THEN n ELSE Len(arr))

(* cap > 0 ? rows.slice(0, cap + 1) : rows.slice() *)
Limited_OneMore(rs, n) == IF n > 0 THEN Slice(rs, n + 1) ELSE rs

(* cap > 0 ? rows.slice(0, cap) : rows.slice() *)
Limited(rs, n) == IF n > 0 THEN Slice(rs, n) ELSE rs

(* limited.map((r) => toNum(r[key])) *)
RawSeries(limited, key) ==
    [i \in 1..Len(limited) |-> QOf(toNum(Get(limited[i], key)))]

SeriesData(limited, keys, win, mode) ==
    [k \in ColumnSet(keys) |->
       TransformSeries(RawSeries(limited, k), win, mode)]

(* row = { __i: i, [x]: parseX(r[x]) }; then row[key] = seriesData[key][i] *)
(* for each key of ys, which overwrites a field of the same name.          *)
ProcessedRow(r, i, x, keys, sd) ==
    [k \in {"__i", x} \cup ColumnSet(keys) |->
       IF k \in ColumnSet(keys) THEN sd[k][i]
       ELSE IF k = x THEN parseX(Get(r, x))
       ELSE Num(i - 1)]

ProcessedRows(limited, x, keys, sd) ==
    [i \in 1..Len(limited) |-> ProcessedRow(limited[i], i, x, keys, sd)]

Processed(rs, x, keys, win, mode, n) ==
    IF x = "" \/ Len(keys) = 0 THEN <<>>
    ELSE ProcessedRows(Limited(rs, n), x, keys,
                       SeriesData(Limited(rs, n), keys, win, mode))

MaxPerfRows == 2
MaxCap == 1

(* Rows of the performance dataset: a column a that is empty, a date or    *)
(* text and a column b of samples.                                         *)
PerfRows ==
    { [a |-> Str(""), b |-> Num(2)],
      [a |-> Str("2020-01-01"), b |-> Str("Infinity")],
      [a |-> Str("x"), b |-> Str("3")] }

PerfRowSets == UNION { [1..k -> PerfRows] : k \in 0..MaxPerfRows }

(* 0 is "All"; the view offers 200, 500 and 0 *)
CapChoices == {DefaultCap} \cup (0..MaxCap)

(* keys.filter((k) => /date|time|year|month/i.test(k)): no key of the      *)
(* model is time-like                                                      *)
timeLikeCols(rs) == <<>>

allCols(rs) == IF Len(rs) = 0 THEN <<>> ELSE ObjectKeys(rs[1])

(* prev.includes(k) ? prev.filter((s) => s !== k) : [...prev, k] *)
Toggle(prev, k) ==
    IF Includes(prev, k) THEN SelectSeq(prev, LAMBDA c : c # k)
    ELSE Append(prev, k)

InitPerformance ==
    /\ rows = <<>>
    /\ loading = TRUE
    /\ PerformanceInitial
    /\ numericCols = <<>> /\ catCols = <<>>
    /\ cat = "" /\ metric = "count" /\ groupBy = "" /\ topN = 0
    /\ sortBy = "value" /\ baseAgg = <<>>
    /\ groupedAgg = [data |-> <<>>, groups |-> <<>>]
    /\ points = <<>> /\ stats = <<>>
    /\ FactorsInitial /\ ExportInitial /\ LiveInitial

PerformanceFrame ==
    UNCHANGED <<cat, metric, groupBy, topN, sortBy, baseAgg, groupedAgg,
                numericCols, catCols, statVars, factorVars, csvVars,
                liveVars, series, seriesData>>

(* The fetch resolves: setRows(data), the defaults effect selects the X    *)
(* column and the first three numeric columns as series.                   *)
loadPerformance ==
    /\ loading
    /\ \E data \in PerfRowSets : rows' = data
    /\ loading' = FALSE
    /\ xKey' = IF Len(rows') = 0 THEN xKey
               ELSE At(timeLikeCols(rows') \o allCols(rows'), 1)
    /\ ys' = IF Len(rows') = 0 THEN ys
             ELSE Slice(PerformanceNumeric(rows'), 3)
    /\ UNCHANGED <<smooth, normalize, cap>>
    /\ processed' = Processed(rows', xKey', ys', smooth', normalize', cap')
    /\ PerformanceFrame

setXKey ==
    /\ ~loading
    /\ \E v \in ColumnSet(allCols(rows)) : xKey' = v
    /\ UNCHANGED <<rows, loading, ys, smooth, normalize, cap>>
    /\ processed' = Processed(rows', xKey', ys', smooth', normalize', cap')
    /\ PerformanceFrame

setYs ==
    /\ ~loading
    /\ \E k \in ColumnSet(PerformanceNumeric(rows)) : ys' = Toggle(ys, k)
    /\ UNCHANGED <<rows, loading, xKey, smooth, normalize, cap>>
    /\ processed' = Processed(rows', xKey', ys', smooth', normalize', cap')
    /\ PerformanceFrame

setSmooth ==
    /\ ~loading
    /\ \E v \in SmoothChoices : smooth' = v
    /\ UNCHANGED <<rows, loading, xKey, ys, normalize, cap>>
    /\ processed' = Processed(rows', xKey', ys', smooth', normalize', cap')
    /\ PerformanceFrame

setNormalize ==
    /\ ~loading
    /\ \E v \in NormalizeChoices : normalize' = v
    /\ UNCHANGED <<rows, loading, xKey, ys, smooth, cap>>
    /\ processed' = Processed(rows', xKey', ys', smooth', normalize', cap')
    /\ PerformanceFrame

setCap ==
    /\ ~loading
    /\ \E v \in CapChoices : cap' = v
    /\ UNCHANGED <<rows, loading, xKey, ys, smooth, normalize>>
    /\ processed' = Processed(rows', xKey', ys', smooth', normalize', cap')
    /\ PerformanceFrame

NextPerformance ==
    loadPerformance \/ setXKey \/ setYs \/ setSmooth \/ setNormalize \/ setCap

SpecPerformance == InitPerformance /\ [][NextPerformance]_vars

----------------------------------------------------------------------------
(* CSV export.  A text is the sequence of its characters; a string value   *)
(* of the export carries its characters in the field s.                    *)

Txt(chars) == [t |-> "str", s |-> chars, n |-> 0]

Quote == "\""
Comma == ","
Newline == "\n"

(* The characters of the texts String() gives for values that are not      *)
(* strings.                                                                *)
Chars(text) ==
    CASE text = "-1" -> <<"-", "1">>
      [] text = "NaN" -> <<"N", "a", "N">>
      [] text = "Infinity" -> <<"I", "n", "f", "i", "n", "i", "t", "y">>
      [] text = "-Infinity" -> <<"-", "I", "n", "f", "i", "n", "i", "t", "y">>
      [] text = "null" -> <<"n", "u", "l", "l">>
      [] text = "undefined" -> <<"u", "n", "d", "e", "f", "i", "n", "e", "d">>
      [] OTHER -> <<text>>

(* s == null ? "" : String(s) *)
FieldText(v) ==
    IF v.t \in {"null", "undef"} THEN <<>>
    ELSE IF v.t = "str" THEN v.s
    ELSE Chars(JsString(v))

(* /[",\n]/.test(v) *)
NeedsQuote(chars) ==
    \E i \in 1..Len(chars) : chars[i] \in {Quote, Comma, Newline}

(* v.replace(/"/g, '""') *)
RECURSIVE DoubleQuotes(_)
DoubleQuotes(chars) ==
    IF chars = <<>> THEN <<>>
    ELSE (IF chars[1] = Quote THEN <<Quote, Quote>> ELSE <<chars[1]>>)
           \o DoubleQuotes(Tail(chars))

Quoted(chars) == <<Quote>> \o DoubleQuotes(chars) \o <<Quote>>

(* the field wrapped in quotes, its inner quotes left single *)
csvSafe_SingleQuotes(v) ==
    IF NeedsQuote(FieldText(v)) THEN <<Quote>> \o FieldText(v) \o <<Quote>>
    ELSE FieldText(v)

csvSafe(v) ==
    IF NeedsQuote(FieldText(v)) THEN Quoted(FieldText(v)) ELSE FieldText(v)

(* arr.join(sep) *)
RECURSIVE Join(_, _)
Join(parts, sep) ==
    IF parts = <<>> THEN <<>>
    ELSE IF Len(parts) = 1 THEN parts[1]
    ELSE parts[1] \o sep \o Join(Tail(parts), sep)

(* arr.map(csvSafe) *)
SafeCells(cells) == [i \in 1..Len(cells) |-> csvSafe(cells[i])]

(* s.toUpperCase() for the letters of the model *)
UpperChar(c) ==
    CASE c = "a" -> "A"
      [] c = "b" -> "B"
      [] c = "c" -> "C"
      [] c = "o" -> "O"
      [] c = "u" -> "U"
      [] c = "n" -> "N"
      [] c = "t" -> "T"
      [] OTHER -> c

toUpperCase(chars) == [i \in 1..Len(chars) |-> UpperChar(chars[i])]

(* Treatment, no second dimension: "Category,METRIC\n" and a line          *)
(* "name,value\n" for each bucket.                                         *)
RECURSIVE FlatLines(_)
FlatLines(agg) ==
    IF agg = <<>> THEN <<>>
    ELSE Join(<<csvSafe(agg[1].name), csvSafe(agg[1].value)>>, <<Comma>>)
           \o <<Newline>> \o FlatLines(Tail(agg))

TreatmentFlatCsv(met, agg) ==
    Join(<<<<"C", "a", "t", "e", "g", "o", "r", "y">>, toUpperCase(met)>>,
         <<Comma>>) \o <<Newline>> \o FlatLines(agg)

(* [csvSafe(r[cat]), ...groups.map((g) => csvSafe(r[g]))] *)
GroupedLine(r, c, groups) ==
    Join(<<csvSafe(Get(r, c))>>
           \o [i \in 1..Len(groups) |-> csvSafe(Get(r, groups[i]))],
         <<Comma>>)

RECURSIVE GroupedLines(_, _, _)
GroupedLines(data, c, groups) ==
    IF data = <<>> THEN <<>>
    ELSE GroupedLine(data[1], c, groups) \o <<Newline>>
           \o GroupedLines(Tail(data), c, groups)

(* Treatment with a second dimension: the header is [cat, ...groups] *)
TreatmentGroupedCsv(c, grouped) ==
    Join(<<c>> \o grouped.groups, <<Comma>>) \o <<Newline>>
      \o GroupedLines(grouped.data, c, grouped.groups)

(* ...(z ? [z] : []) *)
Optional(name) == IF name = <<>> THEN <<>> ELSE <<name>>

FactorsHeaders(x, y, z, c) == <<x, y>> \o Optional(z) \o Optional(c)

(* row = [p.raw[x], p.raw[y]] and the optional columns; row.map(csvSafe) *)
FactorsLine(raw, x, y, z, c) ==
    Join(SafeCells([i \in 1..Len(FactorsHeaders(x, y, z, c)) |->
                      Get(raw, FactorsHeaders(x, y, z, c)[i])]),
         <<Comma>>)

FactorsCsv(pts, x, y, z, c) ==
    Join(<<Join(FactorsHeaders(x, y, z, c), <<Comma>>)>>
           \o [i \in 1..Len(pts) |-> FactorsLine(pts[i], x, y, z, c)],
         <<Newline>>)

(* [csvSafe(d[x]), ...ys.map((k) => csvSafe(d[k]))].join(",") *)
PerformanceLine(d, x, keys) ==
    Join(<<csvSafe(Get(d, x))>>
           \o [i \in 1..Len(keys) |-> csvSafe(Get(d, keys[i]))],
         <<Comma>>)

PerformanceCsv(proc, x, keys) ==
    Join(<<Join(<<x>> \o keys, <<Comma>>)>>
           \o [i \in 1..Len(proc) |-> PerformanceLine(proc[i], x, keys)],
         <<Newline>>)

(* Explore: the ids of the visible columns, then the visible cells of     *)
(* each row of the table, joined by "\n"                                   *)
ExploreLine(r, cols) ==
    Join([j \in 1..Len(cols) |-> csvSafe(Get(r, cols[j]))], <<Comma>>)

ExploreCsv(rs, cols) ==
    Join(<<Join(cols, <<Comma>>)>>
           \o [i \in 1..Len(rs) |-> ExploreLine(rs[i], cols)],
         <<Newline>>)

MaxField == 4
MaxExportRows == 1

(* The characters of a field: the three that need quoting and a letter *)
Alphabet == {Quote, Comma, Newline, "a"}

FieldTexts == UNION { [1..k -> Alphabet] : k \in 0..MaxField }

(* What csvSafe is given: strings, null, undefined and numbers *)
FieldValues ==
    {Txt(chars) : chars \in FieldTexts} \cup {Null, Undef, Num(2), Num(-1), NaN}

InitCsv ==
    /\ ExportInitial /\ LiveInitial
    /\ rows = <<>> /\ loading = FALSE
    /\ numericCols = <<>> /\ catCols = <<>>
    /\ cat = "" /\ metric = "count" /\ groupBy = "" /\ topN = 0
    /\ sortBy = "value" /\ baseAgg = <<>>
    /\ groupedAgg = [data |-> <<>>, groups |-> <<>>]
    /\ points = <<>> /\ stats = <<>>
    /\ FactorsInitial /\ PerformanceInitial

(* One cell of an export is quoted *)
quoteField ==
    /\ \E v \in FieldValues : field' = v
    /\ quoted' = csvSafe(field')
    /\ UNCHANGED <<aggVars, classVars, statVars, factorVars, perfVars,
                   liveVars, csv>>

NextCsv == quoteField

SpecCsv == InitCsv /\ [][NextCsv]_vars

(* Column names and group values of the exports: plain, with a comma and   *)
(* with a quote.                                                           *)
ExportNames == { <<"a">>, <<"b", Comma, "c">>, <<"u", Quote>> }

(* Exported rows: text cells with a comma, numbers, and a row with a null  *)
(* and a quote.                                                            *)
ExportRows ==
    { [k \in ExportNames |-> Txt(<<"a", Comma>>)],
      [k \in ExportNames |-> Num(2)],
      [k \in ExportNames |-> IF k = <<"a">> THEN Null ELSE Txt(<<Quote>>)] }

ExportRowSets == UNION { [1..k -> ExportRows] : k \in 0..MaxExportRows }

(* Buckets of the flat aggregation *)
ExportBuckets ==
    { [name |-> Txt(nm), value |-> Num(2)] : nm \in ExportNames }

ExportAggs == UNION { [1..k -> ExportBuckets] : k \in 0..MaxExportRows }

(* Grouped aggregations: one or two groups, rows filled as rowsOut fills   *)
(* them (the group fields are written after the category field).           *)
ExportGroups == { <<g>> : g \in ExportNames }
                  \cup { <<<<"a">>, g>> : g \in ExportNames \ {<<"a">>} }

ExportGrouped(c, groups, names) ==
    [groups |-> groups,
     data |-> [i \in 1..Len(names) |->
                 [k \in {c} \cup ColumnSet(groups) |->
                    IF k \in ColumnSet(groups) THEN Num(1)
                    ELSE Txt(names[i])]]]

ExportFrame ==
    UNCHANGED <<aggVars, classVars, statVars, factorVars, perfVars,
                liveVars, field, quoted>>

(* Treatment exportCSV with no second dimension *)
exportTreatmentFlat ==
    /\ \E met \in {<<"c", "o", "u", "n", "t">>} \cup ExportNames,
          agg \in ExportAggs :
         csv' = TreatmentFlatCsv(met, agg)
    /\ ExportFrame

(* Treatment exportCSV with a second dimension *)
exportTreatmentGrouped ==
    /\ \E c \in ExportNames, groups \in ExportGroups,
          names \in UNION { [1..k -> ExportNames] : k \in 0..MaxExportRows } :
         csv' = TreatmentGroupedCsv(c, ExportGrouped(c, groups, names))
    /\ ExportFrame

(* Factors exportCSV *)
exportFactors ==
    /\ \E x \in ExportNames, y \in {<<"a">>, <<"b", Comma, "c">>},
          z \in {<<>>, <<"a">>}, c \in {<<>>} \cup ExportNames,
          pts \in ExportRowSets :
         csv' = FactorsCsv(pts, x, y, z, c)
    /\ ExportFrame

(* Performance exportCSV: nothing is exported without processed rows *)
exportPerformance ==
    /\ \E x \in ExportNames, keys \in ExportGroups, proc \in ExportRowSets :
         /\ Len(proc) > 0
         /\ csv' = PerformanceCsv(proc, x, keys)
    /\ ExportFrame

(* Explore exportCSV *)
exportExplore ==
    /\ \E cols \in ExportGroups, rs \in ExportRowSets :
         csv' = ExploreCsv(rs, cols)
    /\ ExportFrame

NextExport ==
    exportTreatmentFlat \/ exportTreatmentGrouped \/ exportFactors
      \/ exportPerformance \/ exportExplore

SpecExport == InitCsv /\ [][NextExport]_vars

----------------------------------------------------------------------------
(* The load effects of the views: fetch, cancellation flag, outcome *)

(* What a request holds: not answered yet, failed (network error or a      *)
(* response that is not ok, which api turns into a thrown Error), or the   *)
(* parsed JSON body of an ok response.                                     *)
Pending == [t |-> "pending", rows |-> <<>>]
Failed == [t |-> "failed", rows |-> <<>>]
Arr(rs) == [t |-> "array", rows |-> rs]
NullBody == [t |-> "null", rows |-> <<>>]
(* an object that is not an array and has no property 0, as {} *)
ObjectBody == [t |-> "object", rows |-> <<>>]
(* a string that is not empty *)
StringBody == [t |-> "string", rows |-> <<>>]
(* a summary with performance.numeric_columns = ["a"] *)
SummaryBody == [t |-> "summary", rows |-> <<>>]

FetchViews ==
    {"Treatment", "Factors", "Performance", "Explore", "Dashboard", "TopGroups"}

(* The path of the dataset a view loads *)
DataPath(v) ==
    CASE v = "Treatment" -> "/treatment"
      [] v = "Factors" -> "/factors"
      [] v = "Performance" -> "/performance"
      [] v = "Explore" -> "/conditions"
      [] v = "Dashboard" -> "/performance"
      [] v = "TopGroups" -> "/factors"

(* The requests of one run of the load effect; Dashboard awaits two *)
Requests(v) ==
    IF v = "Dashboard" THEN {"/summary", "/performance"} ELSE {DataPath(v)}

FetchedRows ==
    { <<[a |-> Str("u"), b |-> Num(1)]>>, <<[a |-> Num(1), b |-> Str("v")]>> }

Bodies(path) ==
    IF path = "/summary" THEN {NullBody, ObjectBody, SummaryBody}
    ELSE {Arr(<<>>), NullBody, ObjectBody, StringBody}
           \cup {Arr(rs) : rs \in FetchedRows}

(* Every load effect but the one of TopGroups has a catch block *)
hasCatch(v) == v # "TopGroups"

(* Array.isArray(data) ? data : []  in the four views;  p || []  and       *)
(* frows || []  in Dashboard and TopGroups                                 *)
Coerced(v, body) ==
    IF v \in {"Dashboard", "TopGroups"}
    THEN IF body.t = "null" THEN Arr(<<>>) ELSE body
    ELSE IF body.t = "array" THEN body ELSE Arr(<<>>)

(* s?.performance?.numeric_columns?.[0] || "" *)
firstNum(s) == IF s.t = "summary" THEN "a" ELSE ""

(* keys.find((k) => frows.every((r) => r[k] === "" || isNaN(Number(r[k])))) *)
(*   || keys[0] || ""    with keys = Object.keys(frows?.[0] || {})          *)
TextKeys(rs) ==
    SelectSeq(ObjectKeys(rs[1]), LAMBDA k :
        \A i \in 1..Len(rs) :
          Get(rs[i], k) = Str("") \/ isNaN(ToNumber(Get(rs[i], k))))

guess(frows) ==
    IF frows.t # "array" \/ Len(frows.rows) = 0 THEN ""
    ELSE IF TextKeys(frows.rows) # <<>> THEN TextKeys(frows.rows)[1]
    ELSE At(ObjectKeys(frows.rows[1]), 1)

(* A TypeError while a response is applied: frows.every on a string in     *)
(* TopGroups (its one character has the key "0"), perf.slice(..).map on a  *)
(* string in the Dashboard render once a trend column is selected.         *)
Throws(v, reqs) ==
    \/ v = "TopGroups" /\ reqs["/factors"].t = "string"
    \/ /\ v = "Dashboard"
       /\ reqs["/performance"].t = "string"
       /\ firstNum(reqs["/summary"]) # ""

(* The setters a settled run calls, in the order of the code: the success  *)
(* path stops at the alive check, catch and finally run whatever it says.  *)
SuccessSetters(v, reqs) ==
    CASE v = "Dashboard" -> {"setSummary", "setPerf", "setTrendCol"}
      [] v = "TopGroups" ->
           IF Throws(v, reqs) THEN {"setRows"} ELSE {"setRows", "setField"}
      [] OTHER -> {"setRows"}

Setters(v, run, reqs) ==
    (IF \E p \in DOMAIN reqs : reqs[p] = Failed
     THEN IF hasCatch(v) THEN {"setError"} ELSE {}
     ELSE IF run.alive THEN SuccessSetters(v, reqs) ELSE {})
      \cup {"setLoading"}

(* Promise.all: rejected by the first failure, fulfilled by the last body *)
Settles(reqs) ==
    \/ \E p \in DOMAIN reqs : reqs[p] = Failed
    \/ \A p \in DOMAIN reqs : reqs[p] # Pending

NewRun(v) ==
    [alive |-> TRUE, settled |-> FALSE, reqs |-> [p \in Requests(v) |-> Pending]]

Cancelled(runs) == [i \in 1..Len(runs) |-> [runs[i] EXCEPT !.alive = FALSE]]

(* What the view shows *)
Shown ==
    IF loading THEN "loading"
    ELSE IF view # "TopGroups" /\ error.t # "null" THEN "error"
    ELSE IF view = "TopGroups"
    THEN IF Len(shownGroups) > 0 THEN "data" ELSE "empty"
    ELSE IF viewRows.t = "array" /\ Len(viewRows.rows) > 0 THEN "data"
    ELSE "empty"

(* The loadGroups effect of TopGroups, run after a render in which field   *)
(* changed: the old run is cancelled, a request for the new field issued.  *)
MaxGroupRuns == 3

GroupRun(f) == [by |-> f, alive |-> TRUE, state |-> "pending"]

(* [...data].sort((a, b) => b.count - a.count).slice(0, 12) *)
GroupLimit == 12

RECURSIVE InsertByCount(_, _)
InsertByCount(sorted, g) ==
    IF sorted = <<>> THEN <<g>>
    ELSE IF g.count > Head(sorted).count THEN <<g>> \o sorted
    ELSE <<Head(sorted)>> \o InsertByCount(Tail(sorted), g)

RECURSIVE SortByCount(_)
SortByCount(data) ==
    IF data = <<>> THEN <<>>
    ELSE InsertByCount(SortByCount(SubSeq(data, 1, Len(data) - 1)),
                       data[Len(data)])

TopGroupsOf(data) == Slice(SortByCount(data), GroupLimit)

(* The groups of the server for a field: the keys are values of the field *)
GroupData(f) ==
    { <<[key |-> <<f, "p">>, count |-> 1], [key |-> <<f, "q">>, count |-> 2]>>,
      <<[key |-> <<f, "q">>, count |-> 3]>> }

(* A response is applied by the run that is still alive *)
Applies_Always(run) == TRUE

Applies(run) == run.alive

InitFetch ==
    /\ view \in FetchViews
    /\ mounted = TRUE
    /\ effects = <<NewRun(view)>>
    /\ viewRows = Arr(<<>>)
    /\ error = Null
    /\ late = {} /\ thrown = FALSE
    /\ loading = TRUE
    /\ field = Str("")
    /\ shownGroups = <<>> /\ groupRuns = <<>>
    /\ pendingFilter = "" /\ globalFilter = ""
    /\ timers = {} /\ idle = 0 /\ typed = 0
    /\ quoted = <<>> /\ csv = <<>>
    /\ rows = <<>>
    /\ cat = "" /\ metric = "count" /\ groupBy = "" /\ topN = 0
    /\ sortBy = "value" /\ baseAgg = <<>>
    /\ groupedAgg = [data |-> <<>>, groups |-> <<>>]
    /\ numericCols = <<>> /\ catCols = <<>>
    /\ points = <<>> /\ stats = <<>>
    /\ FactorsInitial /\ PerformanceInitial

FetchFrame ==
    UNCHANGED <<aggVars, numericCols, catCols, statVars, factorVars, perfVars,
                quoted, csv, view, debounceVars>>

(* React.StrictMode: the effects of a fresh mount are cleaned up and run   *)
(* again on the same instance before anything is answered.                 *)
strictRerun ==
    /\ mounted /\ Len(effects) = 1
    /\ ~effects[1].settled
    /\ \A p \in Requests(view) : effects[1].reqs[p] = Pending
    /\ effects' = Append(Cancelled(effects), NewRun(view))
    /\ UNCHANGED <<loading, viewRows, error, late, thrown, mounted, field,
                   shownGroups, groupRuns>>
    /\ FetchFrame

(* The view is torn down: the cleanup of every effect runs *)
unmount ==
    /\ mounted
    /\ mounted' = FALSE
    /\ effects' = Cancelled(effects)
    /\ groupRuns' = Cancelled(groupRuns)
    /\ UNCHANGED <<loading, viewRows, error, late, thrown, field, shownGroups>>
    /\ FetchFrame

(* The state after the run i settled with the requests reqs.  A setter     *)
(* called on a view that is no longer mounted changes nothing.             *)
Settle(i, reqs) ==
    LET run == effects[i]
        failed == \E p \in DOMAIN reqs : reqs[p] = Failed
        applied == ~failed /\ run.alive
        called == Setters(view, run, reqs)
        selected == IF "setField" \in called
                    THEN Str(guess(reqs[DataPath(view)])) ELSE field
    IN /\ late' = IF mounted THEN late ELSE late \cup called
       /\ loading' = IF mounted THEN FALSE ELSE loading
       /\ error' = IF mounted /\ "setError" \in called
                   THEN Str("Failed to load data.") ELSE error
       /\ viewRows' = IF mounted /\ applied
                      THEN Coerced(view, reqs[DataPath(view)]) ELSE viewRows
       /\ thrown' = (thrown \/ (mounted /\ applied /\ Throws(view, reqs)))
       /\ field' = IF mounted THEN selected ELSE field
       /\ groupRuns' = IF mounted /\ selected # field
                       THEN Append(Cancelled(groupRuns), GroupRun(selected.s))
                       ELSE groupRuns

(* A request of the run i of the load effect is answered *)
respond ==
    \E i \in 1..Len(effects), p \in Requests(view) :
      /\ effects[i].reqs[p] = Pending
      /\ \E body \in Bodies(p) \cup {Failed} :
           LET reqs == [effects[i].reqs EXCEPT ![p] = body]
           IN IF ~effects[i].settled /\ Settles(reqs)
              THEN /\ effects' = [effects EXCEPT ![i].reqs = reqs,
                                                 ![i].settled = TRUE]
                   /\ Settle(i, reqs)
              ELSE /\ effects' = [effects EXCEPT ![i].reqs = reqs]
                   /\ UNCHANGED <<loading, viewRows, error, late, thrown,
                                  field, groupRuns>>
      /\ UNCHANGED <<mounted, shownGroups>>
      /\ FetchFrame

(* The Group by select of TopGroups: its options are the keys of the       *)
(* first row; the loadGroups effect follows the render.                    *)
selectField ==
    /\ view = "TopGroups" /\ mounted /\ ~loading
    /\ viewRows.t = "array" /\ Len(viewRows.rows) > 0
    /\ Len(groupRuns) < MaxGroupRuns
    /\ \E f \in ColumnSet(ObjectKeys(viewRows.rows[1])) :
         /\ f # field.s
         /\ field' = Str(f)
         /\ groupRuns' = Append(Cancelled(groupRuns), GroupRun(f))
    /\ UNCHANGED <<loading, viewRows, error, late, thrown, mounted, effects,
                   shownGroups>>
    /\ FetchFrame

(* A /group request is answered with the groups of its field *)
groupResponds ==
    \E i \in 1..Len(groupRuns) :
      /\ groupRuns[i].state = "pending"
      /\ \E data \in GroupData(groupRuns[i].by) :
           /\ groupRuns' = [groupRuns EXCEPT ![i].state = "done"]
           /\ shownGroups' = IF Applies(groupRuns[i]) THEN TopGroupsOf(data)
                             ELSE shownGroups
           /\ late' = IF Applies(groupRuns[i]) /\ ~mounted
                      THEN late \cup {"setGroups"} ELSE late
      /\ UNCHANGED <<loading, viewRows, error, thrown, mounted, effects, field>>
      /\ FetchFrame

(* A /group request fails: loadGroups has no try block, nothing is set *)
groupFails ==
    \E i \in 1..Len(groupRuns) :
      /\ groupRuns[i].state = "pending"
      /\ groupRuns' = [groupRuns EXCEPT ![i].state = "failed"]
      /\ UNCHANGED <<loading, viewRows, error, late, thrown, mounted, effects,
                     field, shownGroups>>
      /\ FetchFrame

NextFetch ==
    strictRerun \/ unmount \/ respond \/ selectField \/ groupResponds
      \/ groupFails

SpecFetch == InitFetch /\ [][NextFetch]_vars

----------------------------------------------------------------------------
(* The selectors of the Treatment view *)

MaxTreatmentRows == 2

(* Rows with the columns a and b: both categorical, or b numeric *)
TreatmentRows ==
    { [a |-> Str("A"), b |-> Str("X")],
      [a |-> Str("b"), b |-> Str("A")],
      [a |-> Str("A"), b |-> Num(2)],
      [a |-> Str(""), b |-> Str("1")] }

TreatmentRowSets ==
    UNION { [1..k -> TreatmentRows] : k \in 0..MaxTreatmentRows }

InitTreatment ==
    /\ rows = <<>>
    /\ loading = TRUE
    /\ numericCols = <<>> /\ catCols = <<>>
    /\ cat = "" /\ metric = "count" /\ groupBy = "" /\ topN = 0
    /\ sortBy = "value" /\ baseAgg = <<>>
    /\ groupedAgg = [data |-> <<>>, groups |-> <<>>]
    /\ points = <<>> /\ stats = <<>>
    /\ FactorsInitial /\ PerformanceInitial /\ ExportInitial /\ LiveInitial

(* The memos of the render that follows a change of state *)
Aggregate ==
    /\ baseAgg' = BaseAgg(rows', cat', metric', sortBy', topN')
    /\ groupedAgg' = GroupedAgg(rows', cat', groupBy', metric', topN')

TreatmentFrame ==
    UNCHANGED <<statVars, factorVars, perfVars, csvVars, liveVars>>

(* The fetch resolves: setRows, setLoading(false), then the defaults       *)
(* effect selects the first categorical column as the category.            *)
loadTreatment ==
    /\ loading
    /\ \E data \in TreatmentRowSets : rows' = data
    /\ loading' = FALSE
    /\ numericCols' = ClassifyColumns(rows').numericCols
    /\ catCols' = ClassifyColumns(rows').catCols
    /\ cat' = IF Len(rows') > 0 /\ cat = "" THEN At(catCols', 1) ELSE cat
    /\ metric' = IF Len(rows') > 0 /\ metric # "count"
                    /\ ~Includes(numericCols', metric)
                 THEN "count" ELSE metric
    /\ UNCHANGED <<groupBy, topN, sortBy>>
    /\ Aggregate
    /\ TreatmentFrame

(* Category: options={catCols} *)
selectCategory ==
    /\ ~loading
    /\ \E v \in ColumnSet(catCols) : v # cat /\ cat' = v
    /\ UNCHANGED <<rows, loading, numericCols, catCols, metric, groupBy, topN,
                   sortBy>>
    /\ Aggregate
    /\ TreatmentFrame

(* Metric: options={["count", ...numericCols]} *)
selectMetric ==
    /\ ~loading
    /\ \E v \in {"count"} \cup ColumnSet(numericCols) : v # metric /\ metric' = v
    /\ UNCHANGED <<rows, loading, numericCols, catCols, cat, groupBy, topN,
                   sortBy>>
    /\ Aggregate
    /\ TreatmentFrame

(* Group by: options={["", ...catCols.filter((c) => c !== cat)]} *)
selectGroupBy ==
    /\ ~loading
    /\ \E v \in {""} \cup (ColumnSet(catCols) \ {cat}) :
         v # groupBy /\ groupBy' = v
    /\ UNCHANGED <<rows, loading, numericCols, catCols, cat, metric, topN,
                   sortBy>>
    /\ Aggregate
    /\ TreatmentFrame

(* Top N and Sort *)
selectTopN ==
    /\ ~loading
    /\ \E v \in TopNChoices : v # topN /\ topN' = v
    /\ UNCHANGED <<rows, loading, numericCols, catCols, cat, metric, groupBy,
                   sortBy>>
    /\ Aggregate
    /\ TreatmentFrame

selectSortBy ==
    /\ ~loading
    /\ \E v \in SortChoices : v # sortBy /\ sortBy' = v
    /\ UNCHANGED <<rows, loading, numericCols, catCols, cat, metric, groupBy,
                   topN>>
    /\ Aggregate
    /\ TreatmentFrame

NextTreatment ==
    loadTreatment \/ selectCategory \/ selectMetric \/ selectGroupBy
      \/ selectTopN \/ selectSortBy

SpecTreatment == InitTreatment /\ [][NextTreatment]_vars

----------------------------------------------------------------------------
(* Explore: the debounce of the search text *)

(* setTimeout(..., 300): the delay, counted in ticks of 100 ms *)
DebounceTicks == 3

MaxTyped == 3

(* What can stand in the search input *)
SearchTexts == {"", "a", "ab", "b"}

(* setTimeout(() => setGlobalFilter(pendingFilter), 300) *)
Schedule(ts, text) == ts \cup {[text |-> text, left |-> DebounceTicks]}

(* An effect whose cleanup cancels nothing *)
Cleanup_KeepsTimer(ts) == ts

(* return () => clearTimeout(id): the timer of the previous run is gone *)
Cleanup(ts) == {}

InitDebounce ==
    /\ pendingFilter = "" /\ globalFilter = ""
    /\ timers = Schedule({}, pendingFilter)
    /\ idle = 0 /\ typed = 0
    /\ view = "Explore" /\ mounted = TRUE /\ effects = <<>>
    /\ viewRows = Arr(<<>>) /\ error = Null /\ late = {} /\ thrown = FALSE
    /\ shownGroups = <<>> /\ groupRuns = <<>>
    /\ rows = <<>> /\ loading = FALSE
    /\ numericCols = <<>> /\ catCols = <<>>
    /\ cat = "" /\ metric = "count" /\ groupBy = "" /\ topN = 0
    /\ sortBy = "value" /\ baseAgg = <<>>
    /\ groupedAgg = [data |-> <<>>, groups |-> <<>>]
    /\ points = <<>> /\ stats = <<>>
    /\ FactorsInitial /\ PerformanceInitial /\ ExportInitial

DebounceFrame ==
    UNCHANGED <<aggVars, classVars, statVars, factorVars, perfVars, csvVars,
                fetchVars, groupVars>>

(* A keystroke that changes the text: setPendingFilter, and after the      *)
(* render the cleanup of the last run of the effect and its next run.      *)
type ==
    /\ typed < MaxTyped
    /\ \E text \in SearchTexts \ {pendingFilter} :
         /\ pendingFilter' = text
         /\ timers' = Schedule(Cleanup(timers), text)
    /\ idle' = 0
    /\ typed' = typed + 1
    /\ UNCHANGED globalFilter
    /\ DebounceFrame

(* 100 ms pass; a timer that is due may still wait for the event loop *)
tick ==
    /\ timers' = {[tm EXCEPT !.left = IF @ > 0 THEN @ - 1 ELSE 0] : tm \in timers}
    /\ idle' = IF idle < DebounceTicks THEN idle + 1 ELSE idle
    /\ UNCHANGED <<pendingFilter, globalFilter, typed>>
    /\ DebounceFrame

(* A due timer runs its callback: setGlobalFilter(text it was made with) *)
fire ==
    /\ \E tm \in timers :
         /\ tm.left = 0
         /\ globalFilter' = tm.text
         /\ timers' = timers \ {tm}
    /\ UNCHANGED <<pendingFilter, idle, typed>>
    /\ DebounceFrame

NextDebounce == type \/ tick \/ fire

SpecDebounce == InitDebounce /\ [][NextDebounce]_vars

(* Time passes and due timers run *)
SpecDebounceLive == SpecDebounce /\ WF_vars(tick) /\ WF_vars(fire)

----------------------------------------------------------------------------
(* Claims about aggregate (baseAgg) *)

Min(a, b) == IF a < b THEN a ELSE b

(* The category of a row as the specification states it: the value of the  *)
(* category column as a string, with null, undefined and "" as "Unknown".  *)
CoercedCategory(r, col) ==
    LET v == Get(r, col)
    IN IF v = Null \/ v = Undef \/ v = Str("") THEN "Unknown" ELSE JsString(v)

(* What a row adds to its bucket as the specification states it. *)
Contribution(r) ==
    IF metric = "count" THEN 1
    ELSE LET v == ToNumber(Get(r, metric)) IN IF v.t = "num" THEN v.n ELSE 0

RECURSIVE SumContribution(_)
SumContribution(S) ==
    IF S = {} THEN 0
    ELSE LET i == CHOOSE x \in S : TRUE
         IN Contribution(rows[i]) + SumContribution(S \ {i})

RowIds == 1..Len(rows)
Categories == {CoercedCategory(rows[i], cat) : i \in RowIds}
Collapsed == cat # "" /\ topN > 0 /\ Cardinality(Categories) > topN
HeadLen == IF Collapsed THEN topN ELSE Len(baseAgg)
HeadNames == {baseAgg[p].name : p \in 1..Min(HeadLen, Len(baseAgg))}
FullAgg == BaseAgg(rows, cat, metric, sortBy, 0)

(* C1: the bucket values of aggregate sum to the same total as the bucket  *)
(* values of the same aggregation with topN = 0.                           *)
C1_MassPreserved == SumValues(baseAgg) = SumValues(FullAgg)

C1_Witness ==
    /\ Collapsed
    /\ metric = "m"
    /\ Len(baseAgg) = topN + 1
    /\ baseAgg[topN + 1].value # 0
    /\ Len(FullAgg) > topN + 1

(* C2: the bucket names of one aggregation result are pairwise distinct,   *)
(* also when the collapse adds "Other" and the data has a category "Other" *)
C2_NamesDistinct ==
    \A p, q \in 1..Len(baseAgg) : p # q => baseAgg[p].name # baseAgg[q].name

(* The buckets that account for row i: the head bucket that bears its      *)
(* category, or the synthetic bucket when its category is not in the head. *)
AccountedIn(i) ==
    LET key == CoercedCategory(rows[i], cat)
    IN {p \in 1..Min(HeadLen, Len(baseAgg)) : baseAgg[p].name = key}
       \cup (IF Collapsed /\ key \notin HeadNames THEN {topN + 1} ELSE {})

(* C3: with a category column selected every row is accounted for in       *)
(* exactly one bucket, its own or the synthetic "Other", and every bucket  *)
(* holds exactly the contributions of the rows accounted for in it.        *)
C3_RowsAccounted ==
    cat # "" =>
      /\ Len(baseAgg) = HeadLen + (IF Collapsed THEN 1 ELSE 0)
      /\ \A i \in RowIds : Cardinality(AccountedIn(i)) = 1
      /\ \A p \in 1..Len(baseAgg) :
           baseAgg[p].value = SumContribution({i \in RowIds : p \in AccountedIn(i)})

C3_Witness ==
    /\ Collapsed
    /\ Len(rows) = MaxRows
    /\ \E i \in RowIds : AccountedIn(i) = {topN + 1}
    /\ \E i \in RowIds : AccountedIn(i) = {1}

(* C4: when topN > 0 and there are more than topN sorted buckets the       *)
(* result is the first topN of them followed by one bucket "Other" holding *)
(* the sum of the rest; otherwise it is the full sorted list.              *)
C4_CollapseShape ==
    LET sorted == FullAgg
    IN IF topN > 0 /\ Len(sorted) > topN
       THEN /\ Len(baseAgg) = topN + 1
            /\ SubSeq(baseAgg, 1, topN) = SubSeq(sorted, 1, topN)
            /\ baseAgg[topN + 1] =
                 [name |-> "Other",
                  value |-> SumValues(SubSeq(sorted, topN + 1, Len(sorted)))]
       ELSE baseAgg = sorted

C4_Witness ==
    /\ topN = 1
    /\ Len(FullAgg) = 3
    /\ Len(baseAgg) = 2
    /\ baseAgg[2].name = "Other"

C4_WitnessNoCollapse == topN > 0 /\ Len(FullAgg) = topN /\ baseAgg = FullAgg

(* C5: with topN = 0 there is one bucket per coerced category and its      *)
(* value is the count of the rows of that category, or the sum of their    *)
(* metric values with every unparseable or non-finite value counted as 0.  *)
C5_BucketValues ==
    (cat # "" /\ topN = 0) =>
      /\ {baseAgg[p].name : p \in 1..Len(baseAgg)} = Categories
      /\ Len(baseAgg) = Cardinality(Categories)
      /\ \A p \in 1..Len(baseAgg) :
           baseAgg[p].value =
             SumContribution({i \in RowIds :
                                CoercedCategory(rows[i], cat) = baseAgg[p].name})

C5_Witness ==
    /\ cat # "" /\ topN = 0 /\ metric = "m"
    /\ \E p \in 1..Len(baseAgg) :
         /\ baseAgg[p].name = "Unknown"
         /\ Cardinality({i \in RowIds : CoercedCategory(rows[i], cat) = "Unknown"}) = 2
    /\ \E p \in 1..Len(baseAgg) : baseAgg[p].value = 3

FirstRowOf(name) ==
    CHOOSE i \in RowIds :
      /\ CoercedCategory(rows[i], cat) = name
      /\ \A j \in 1..(i - 1) : CoercedCategory(rows[j], cat) # name

(* C6: before the collapse the buckets are in descending order of value,   *)
(* equal values in the order their categories first occur in the rows,     *)
(* when sortMode is "value", and in ascending order of name when it is     *)
(* "name"; the head of a collapsed result is a prefix of that order.       *)
C6_SortOrder ==
    LET sorted == FullAgg
        headLen == Min(HeadLen, Len(baseAgg))
    IN cat # "" =>
         /\ sortBy = "value" =>
              \A p, q \in 1..Len(sorted) : p < q =>
                \/ sorted[p].value > sorted[q].value
                \/ /\ sorted[p].value = sorted[q].value
                   /\ FirstRowOf(sorted[p].name) < FirstRowOf(sorted[q].name)
         /\ sortBy = "name" =>
              \A p, q \in 1..Len(sorted) : p < q =>
                Rank(LocaleOrder, sorted[p].name) < Rank(LocaleOrder, sorted[q].name)
         /\ \A p \in 1..headLen : baseAgg[p] = sorted[p]

(* two buckets of equal value, the one met first in the rows ahead of the *)
(* one whose name sorts first                                              *)
C6_Witness ==
    /\ cat # "" /\ sortBy = "value" /\ metric = "m" /\ topN = 0
    /\ baseAgg = <<[name |-> "b", value |-> 3], [name |-> "A", value |-> 3]>>

C6_WitnessDescending ==
    /\ cat # "" /\ sortBy = "value" /\ metric = "m" /\ topN = 0
    /\ Len(baseAgg) = 3
    /\ baseAgg[1].value > baseAgg[2].value
    /\ baseAgg[2].value > baseAgg[3].value
    /\ CoercedCategory(rows[1], cat) = baseAgg[3].name

C6_WitnessName ==
    /\ cat # "" /\ sortBy = "name" /\ Collapsed
    /\ Len(FullAgg) = 3
    /\ FullAgg[1].name = "b"

----------------------------------------------------------------------------
(* Claims about aggregateGrouped (groupedAgg) *)

GroupValues == {CoercedCategory(rows[i], groupBy) : i \in RowIds}

RECURSIVE SumField(_, _)
SumField(data, g) ==
    IF data = <<>> THEN 0 ELSE data[1][g].n + SumField(Tail(data), g)

FullGrouped == GroupedAgg(rows, cat, groupBy, metric, 0)

(* C7: the collapse of groupedAgg leaves the group columns as they are,    *)
(* the "Other" row holds for each group the sum of the collapsed           *)
(* categories' values, and each group's column adds up to the metric total *)
(* of the input rows of that group.                                        *)
C7_GroupTotals ==
    LET full == FullGrouped
        data == groupedAgg.data
        groups == groupedAgg.groups
    IN (cat # "" /\ groupBy # "") =>
         /\ groups = full.groups
         /\ {groups[k] : k \in 1..Len(groups)} = GroupValues
         /\ Len(groups) = Cardinality(GroupValues)
         /\ \A k \in 1..Len(groups) :
              SumField(data, groups[k]) =
                SumContribution({i \in RowIds :
                                   CoercedCategory(rows[i], groupBy) = groups[k]})
         /\ Collapsed =>
              /\ Len(data) = topN + 1
              /\ \A k \in 1..Len(groups) :
                   data[topN + 1][groups[k]].n =
                     SumField(SubSeq(full.data, topN + 1, Len(full.data)), groups[k])

(* two collapsed categories that both have a value for group "X" *)
C7_Witness ==
    /\ cat # "" /\ groupBy # "" /\ Collapsed /\ metric = "m" /\ topN = 1
    /\ Len(FullGrouped.data) = 3
    /\ groupedAgg.groups = <<"X", "Y">>
    /\ FullGrouped.data[2]["X"].n # 0
    /\ FullGrouped.data[3]["X"].n # 0
    /\ groupedAgg.data[2]["X"].n # 0

(* C8: every row of groupedAgg carries its category name under the         *)
(* category field and exactly one numeric field for each observed group    *)
(* value, also when a group value is the category column's name.           *)
C8_CompleteRows ==
    LET cats == GroupedCats(rows, cat, groupBy, metric, topN)
        data == groupedAgg.data
        groups == groupedAgg.groups
    IN (cat # "" /\ groupBy # "") =>
         \A p \in 1..Len(data) :
           /\ data[p][cat] = Str(cats[p].name)
           /\ \A k \in 1..Len(groups) : data[p][groups[k]].t = "num"
           /\ Cardinality(DOMAIN data[p]) = 1 + Len(groups)

----------------------------------------------------------------------------
(* Claims about the column classification *)

(* A cell is empty or parses as a finite number. *)
EmptyOrFinite(v) == v = Str("") \/ ToNumber(v).t = "num"

FirstRowKeys == IF Len(rows) = 0 THEN {} ELSE DOMAIN rows[1]

AsSet(s) == {s[i] : i \in 1..Len(s)}

(* C9: in every view a key of the first row is numeric exactly when every  *)
(* row's value for it is empty or parses as a finite number and is         *)
(* categorical otherwise; an empty row set has no columns of either kind.  *)
C9_Classification ==
    ~loading =>
      /\ \A v \in Views :
           AsSet(numericCols[v]) =
             {k \in FirstRowKeys :
                \A i \in 1..Len(rows) : EmptyOrFinite(Get(rows[i], k))}
      /\ \A v \in DOMAIN catCols :
           AsSet(catCols[v]) = FirstRowKeys \ AsSet(numericCols[v])

----------------------------------------------------------------------------
(* Claims about linearStats *)

ValidIds == {i \in 1..Len(points) : points[i][1].t = "num" /\ points[i][2].t = "num"}

RECURSIVE SumFn(_, _)
SumFn(f, S) ==
    IF S = {} THEN 0
    ELSE LET i == CHOOSE x \in S : TRUE IN f[i] + SumFn(f, S \ {i})

ValidN == Cardinality(ValidIds)
Sx == SumFn([i \in ValidIds |-> points[i][1].n], ValidIds)
Sy == SumFn([i \in ValidIds |-> points[i][2].n], ValidIds)
Sxx == SumFn([i \in ValidIds |-> points[i][1].n * points[i][1].n], ValidIds)
Syy == SumFn([i \in ValidIds |-> points[i][2].n * points[i][2].n], ValidIds)
DenX == ValidN * Sxx - Sx * Sx
DenY == ValidN * Syy - Sy * Sy

(* C10: linearStats uses only the pairs with finite x and y; with fewer    *)
(* than 2 of them r, slope and intercept are NaN; slope and intercept are  *)
(* NaN when n*Sxx - Sx^2 = 0 and r is NaN when (n*Sxx - Sx^2)*(n*Syy -     *)
(* Sy^2) = 0; no output is ever infinite.                                  *)
C10_Sentinels ==
    LET dx == DenX
        dy == DenY
    IN /\ stats = linearStats(SelectSeq(points,
                              LAMBDA p : p[1].t = "num" /\ p[2].t = "num"))
       /\ ValidN < 2 =>
            stats.r.t = "nan" /\ stats.slope.t = "nan" /\ stats.intercept.t = "nan"
       /\ dx = 0 => stats.slope.t = "nan" /\ stats.intercept.t = "nan"
       /\ dx * dy = 0 => stats.r.t = "nan"
       /\ (ValidN >= 2 /\ dx # 0) =>
            stats.slope.t = "num" /\ stats.intercept.t = "num"
       /\ (ValidN >= 2 /\ dx * dy # 0) => stats.r.t = "num"
       /\ stats.r.t # "inf" /\ stats.slope.t # "inf" /\ stats.intercept.t # "inf"

(* two valid pairs on a vertical line, next to a pair that is not finite *)
C10_Witness ==
    /\ ValidN = 2
    /\ Len(points) = 3
    /\ DenX = 0
    /\ DenY # 0
    /\ stats.slope.t = "nan"

(* valid pairs on a horizontal line: the slope is defined, r is not *)
C10_WitnessFlat ==
    /\ ValidN >= 2
    /\ DenX # 0
    /\ DenY = 0
    /\ stats.slope = QInt(0)
    /\ stats.r.t = "nan"

Sxy == SumFn([i \in ValidIds |-> points[i][1].n * points[i][2].n], ValidIds)
NumR == ValidN * Sxy - Sx * Sy

(* C11: for at least 2 valid integer points with non-zero denominators     *)
(* linearStats returns the least-squares values: slope * (n*Sxx - Sx^2) =  *)
(* n*Sxy - Sx*Sy, intercept * n = Sy - slope*Sx, r^2 * (n*Sxx - Sx^2) *    *)
(* (n*Syy - Sy^2) = (n*Sxy - Sx*Sy)^2 with r of the sign of the slope; on  *)
(* [(1,2),(2,4),(3,6)] it returns slope = 2, intercept = 0, r = 1.         *)
C11_LeastSquares ==
    LET dx == DenX
        dy == DenY
        nr == NumR
        sl == stats.slope
        ic == stats.intercept
    IN /\ (ValidN >= 2 /\ dx # 0) =>
            /\ sl.t = "num" /\ sl.den > 0
            /\ sl.num * dx = nr * sl.den
            /\ ic.t = "num" /\ ic.den > 0
            /\ ic.num * ValidN * sl.den = ic.den * (Sy * sl.den - sl.num * Sx)
       /\ (ValidN >= 2 /\ dx # 0 /\ dy # 0) =>
            /\ stats.r.t = "num"
            /\ stats.r.num * stats.r.num * dx * dy = nr * nr * stats.r.rad
            /\ Sign(stats.r.num) = Sign(sl.num)
       /\ points = << <<Num(1), Num(2)>>, <<Num(2), Num(4)>>, <<Num(3), Num(6)>> >> =>
            /\ sl = QInt(2)
            /\ ic = QInt(0)
            /\ stats.r.num > 0 /\ stats.r.num * stats.r.num = stats.r.rad

(* the points (1,2), (2,4), (3,6) of the example *)
C11_Witness ==
    /\ points = << <<Num(1), Num(2)>>, <<Num(2), Num(4)>>, <<Num(3), Num(6)>> >>
    /\ stats.slope = QInt(2)

(* a falling line that does not fit exactly: fractional slope, -1 < r < 0 *)
C11_WitnessFraction ==
    /\ ValidN = 3
    /\ stats.slope.t = "num" /\ stats.slope.den > 1 /\ stats.slope.num < 0
    /\ stats.r.t = "num" /\ stats.r.num * stats.r.num < stats.r.rad

----------------------------------------------------------------------------
(* Claims about the trend line of the Factors view *)

(* C12: in every reachable state of the column selectors and range inputs  *)
(* the trend line is absent or is exactly the two points (xMin, slope *    *)
(* xMin + intercept) and (xMax, slope * xMax + intercept) at the current   *)
(* x-axis filter bounds; it is absent whenever slope or intercept is NaN.  *)
C12_TrendLine ==
    LET lo == ToNumber(Str(xMin))
        hi == ToNumber(Str(xMax))
    IN /\ Len(trendline) \in {0, 2}
       /\ Len(trendline) = 2 =>
            /\ ~isNaN(lo) /\ ~isNaN(hi)
            /\ trendline[1].x = QOf(lo)
            /\ trendline[1].y = QAdd(QMul(stats.slope, QOf(lo)), stats.intercept)
            /\ trendline[2].x = QOf(hi)
            /\ trendline[2].y = QAdd(QMul(stats.slope, QOf(hi)), stats.intercept)
       /\ (stats.slope.t = "nan" \/ stats.intercept.t = "nan") =>
            trendline = <<>>

(* a line is drawn between two finite bounds *)
C12_Witness ==
    /\ Len(trendline) = 2
    /\ xMin = "1" /\ xMax = "2"
    /\ stats.slope.t = "num" /\ stats.slope.num # 0
    /\ trendline[1].y.t = "num" /\ trendline[2].y.t = "num"
    /\ trendline[1].y # trendline[2].y

(* numeric bounds but undefined statistics: no line *)
C12_WitnessAbsent ==
    /\ xCol # "" /\ yCol # ""
    /\ ~isNaN(ToNumber(Str(xMin))) /\ ~isNaN(ToNumber(Str(xMax)))
    /\ stats.slope.t = "nan"
    /\ trendline = <<>>

----------------------------------------------------------------------------
(* Claims about the series transformations of the Performance view *)

Q(n) == QInt(n)

(* indexes i-w+1..i of the window that ends at i *)
WindowIds(i, w) == (i - w + 1)..i

(* C13: movingAvg(series, w) with w > 1 has the length of the series; its  *)
(* value at index i is the mean of the w samples ending at i when there    *)
(* are w of them and all are finite, and NaN otherwise; with w <= 1 the    *)
(* series is returned unchanged.  Window 3 over [1,2,3,4,5] gives          *)
(* [NaN, NaN, 2, 3, 4].                                                    *)
C13_MovingAverage ==
    /\ movingAvg(series, 0) = series
    /\ movingAvg(series, 1) = series
    /\ movingAvg(<<Q(1), Q(2), Q(3), Q(4), Q(5)>>, 3)
         = <<QNaN, QNaN, Q(2), Q(3), Q(4)>>
    /\ (normalize = "none" /\ smooth = 1) => seriesData = series
    /\ (normalize = "none" /\ smooth > 1) =>
         /\ Len(seriesData) = Len(series)
         /\ \A i \in 1..Len(series) :
              IF i >= smooth /\ \A k \in WindowIds(i, smooth) : series[k].t = "num"
              THEN seriesData[i] =
                     Quot(SumFn([k \in WindowIds(i, smooth) |-> series[k].num],
                                WindowIds(i, smooth)), smooth)
              ELSE seriesData[i] = QNaN

(* a series whose sample that is not finite blanks the windows over it *)
C13_Witness ==
    /\ normalize = "none" /\ smooth = 2
    /\ series = <<Q(2), Q(4), QInf(1)>>
    /\ seriesData = <<QNaN, Q(3), QNaN>>

(* C14: index normalization: each output for a finite sample equals        *)
(* sample / base * 100 where base is the first finite sample of the        *)
(* series, and every output is NaN when the series has no finite sample.   *)
C14_IndexNormalization ==
    normalize = "index" =>
      LET sm == Smooth(series, smooth)
          fin == {i \in 1..Len(sm) : sm[i].t = "num"}
      IN /\ Len(seriesData) = Len(sm)
         /\ fin # {} =>
              \A i \in fin :
                seriesData[i] =
                  QMul(QDiv(sm[i], sm[CHOOSE b \in fin : \A k \in fin : b <= k]),
                       Q(100))
         /\ fin = {} => \A i \in 1..Len(sm) : seriesData[i] = QNaN

(* C15: after index normalization of a series with a finite sample the     *)
(* output at the position of the first finite sample is 100, whatever      *)
(* that sample is (0 and negative values included).                        *)
C15_BaseIsHundred ==
    normalize = "index" =>
      LET sm == Smooth(series, smooth)
          fin == {i \in 1..Len(sm) : sm[i].t = "num"}
      IN fin # {} =>
           seriesData[CHOOSE b \in fin : \A k \in fin : b <= k] = Q(100)

(* C16: min-max normalization maps each finite sample v to (v - min) /     *)
(* (max - min) over the finite samples, so outputs lie in [0, 1] with the  *)
(* minimum at 0 and the maximum at 1; every output is NaN when max - min   *)
(* is zero, and the output of a sample that is not finite is NaN.          *)
(* [2,4,6] gives [0, 0.5, 1] and [5,5,5] gives NaN three times.            *)
C16_MinMax ==
    /\ NormalizeMinMax(<<Q(2), Q(4), Q(6)>>) = <<Q(0), Quot(1, 2), Q(1)>>
    /\ NormalizeMinMax(<<Q(5), Q(5), Q(5)>>) = <<QNaN, QNaN, QNaN>>
    /\ normalize = "minmax" =>
         LET sm == Smooth(series, smooth)
             fin == {i \in 1..Len(sm) : sm[i].t = "num"}
             lo == CHOOSE b \in fin : \A k \in fin : ~QLess(sm[k], sm[b])
             hi == CHOOSE b \in fin : \A k \in fin : ~QLess(sm[b], sm[k])
         IN /\ Len(seriesData) = Len(sm)
            /\ \A i \in 1..Len(sm) \ fin : seriesData[i] = QNaN
            /\ (fin # {} /\ sm[lo] = sm[hi]) =>
                 \A i \in fin : seriesData[i] = QNaN
            /\ (fin # {} /\ sm[lo] # sm[hi]) =>
                 \A i \in fin :
                   /\ seriesData[i] = QDiv(QSub(sm[i], sm[lo]), QSub(sm[hi], sm[lo]))
                   /\ seriesData[i].t = "num"
                   /\ 0 <= seriesData[i].num
                   /\ seriesData[i].num <= seriesData[i].den
                   /\ sm[i] = sm[lo] => seriesData[i] = Q(0)
                   /\ sm[i] = sm[hi] => seriesData[i] = Q(1)

(* a series with a negative minimum and a sample that is not finite *)
C16_Witness ==
    /\ normalize = "minmax" /\ smooth = 0
    /\ series = <<Q(2), QNaN, Q(-2)>>
    /\ seriesData = <<Q(1), QNaN, Q(0)>>

(* a constant series *)
C16_WitnessConstant ==
    /\ normalize = "minmax" /\ smooth = 0
    /\ series = <<Q(2), Q(2)>>
    /\ seriesData = <<QNaN, QNaN>>

----------------------------------------------------------------------------
(* Claims about the processed rows of the Performance view *)

(* the rows that enter the chart and the samples of one series in them *)
CappedLen == IF cap > 0 THEN Min(cap, Len(rows)) ELSE Len(rows)
RawOf(k) == [i \in 1..CappedLen |-> QOf(toNum(Get(rows[i], k)))]
OutputOf(k) == [i \in 1..Len(processed) |-> processed[i][k]]

(* C17: for every smoothing window and normalization mode each output     *)
(* series equals normalize(movingAvg(raw series)): the index base and the  *)
(* min/max are taken from the smoothed series.                             *)
C17_SmoothThenNormalize ==
    (xKey # "" /\ ys # <<>>) =>
      \A j \in 1..Len(ys) :
        OutputOf(ys[j]) = Normalize(normalize, movingAvg(RawOf(ys[j]), smooth))

(* a series for which the two orders differ *)
C17_Witness ==
    /\ xKey # "" /\ ys = <<"b">>
    /\ smooth = 2 /\ normalize = "index"
    /\ Len(processed) = 2
    /\ OutputOf("b") # movingAvg(Normalize(normalize, RawOf("b")), smooth)
    /\ processed[2]["b"] = QInt(100)

(* C18: with an X column and at least one series selected the processed    *)
(* output has min(cap, number of rows) entries when cap > 0 and as many    *)
(* entries as rows when cap = 0; entry i is built from row i for every     *)
(* selected series; smoothing and normalization never change the length;   *)
(* with no X column or no series the output is empty.                      *)
C18_ProcessedLength ==
    /\ (xKey = "" \/ ys = <<>>) => processed = <<>>
    /\ (xKey # "" /\ ys # <<>>) =>
         /\ Len(processed) = (IF cap > 0 THEN Min(cap, Len(rows)) ELSE Len(rows))
         /\ \A i \in 1..Len(processed) :
              /\ DOMAIN processed[i] = {"__i", xKey} \cup AsSet(ys)
              /\ processed[i]["__i"] = Num(i - 1)
              /\ xKey \notin AsSet(ys) =>
                   processed[i][xKey] = parseX(Get(rows[i], xKey))
              /\ (smooth = 0 /\ normalize = "none") =>
                   \A j \in 1..Len(ys) :
                     processed[i][ys[j]] = QOf(toNum(Get(rows[i], ys[j])))

(* the cap cuts the rows, smoothing and normalization are on *)
C18_Witness ==
    /\ xKey # "" /\ ys # <<>>
    /\ cap = 1 /\ Len(rows) = 2 /\ Len(processed) = 1
    /\ smooth > 0 /\ normalize # "none"

(* no cap *)
C18_WitnessAll ==
    /\ xKey # "" /\ ys # <<>>
    /\ cap = 0 /\ Len(rows) = 2 /\ Len(processed) = 2

----------------------------------------------------------------------------
(* Claims about the CSV export *)

(* A reader of CSV text: fields are split at commas and records at line    *)
(* ends outside quotes; a field that opens with a quote runs to its        *)
(* closing quote and a doubled quote inside it is one quote.               *)
RECURSIVE ReadCsv(_, _, _, _, _, _)
ReadCsv(text, i, fld, rec, recs, inQuotes) ==
    IF i > Len(text)
    THEN IF i = 1 \/ (fld = <<>> /\ rec = <<>> /\ text[Len(text)] = Newline)
         THEN recs
         ELSE Append(recs, Append(rec, fld))
    ELSE IF inQuotes
    THEN IF text[i] = Quote
         THEN IF i < Len(text) /\ text[i + 1] = Quote
              THEN ReadCsv(text, i + 2, Append(fld, Quote), rec, recs, TRUE)
              ELSE ReadCsv(text, i + 1, fld, rec, recs, FALSE)
         ELSE ReadCsv(text, i + 1, Append(fld, text[i]), rec, recs, TRUE)
    ELSE IF text[i] = Quote /\ fld = <<>>
    THEN ReadCsv(text, i + 1, fld, rec, recs, TRUE)
    ELSE IF text[i] = Comma
    THEN ReadCsv(text, i + 1, <<>>, Append(rec, fld), recs, FALSE)
    ELSE IF text[i] = Newline
    THEN ReadCsv(text, i + 1, <<>>, <<>>, Append(recs, Append(rec, fld)), FALSE)
    ELSE ReadCsv(text, i + 1, Append(fld, text[i]), rec, recs, FALSE)

Records(text) == ReadCsv(text, 1, <<>>, <<>>, <<>>, FALSE)

QuoteCount(chars) == Cardinality({i \in 1..Len(chars) : chars[i] = Quote})

(* C19: csvSafe wraps the field in double quotes with inner quotes doubled *)
(* exactly when it holds a comma, a double quote or a newline and emits it *)
(* verbatim otherwise; null and undefined become the empty string; a       *)
(* reader that un-quotes the result recovers the string.  a,b"c becomes    *)
(* "a,b""c".                                                               *)
C19_QuotingRoundTrip ==
    /\ csvSafe(Txt(<<"a", Comma, "b", Quote, "c">>))
         = <<Quote, "a", Comma, "b", Quote, Quote, "c", Quote>>
    /\ Records(<<Quote, "a", Comma, "b", Quote, Quote, "c", Quote>>)
         = << << <<"a", Comma, "b", Quote, "c">> >> >>
    /\ field.t \in {"null", "undef"} => quoted = <<>>
    /\ field.t \in {"num", "nan"} => quoted = Chars(JsString(field))
    /\ field.t = "str" =>
         /\ (\E i \in 1..Len(field.s) : field.s[i] \in {Quote, Comma, Newline}) =>
              /\ Len(quoted) = Len(field.s) + 2 + QuoteCount(field.s)
              /\ quoted[1] = Quote /\ quoted[Len(quoted)] = Quote
              /\ QuoteCount(quoted) = 2 + 2 * QuoteCount(field.s)
         /\ (\A i \in 1..Len(field.s) : field.s[i] \notin {Quote, Comma, Newline}) =>
              quoted = field.s
         /\ field.s # <<>> => Records(quoted) = << <<field.s>> >>

(* a field with a comma, a quote and a newline *)
C19_Witness ==
    /\ field = Txt(<<"a", Comma, Quote, Newline>>)
    /\ quoted = <<Quote, "a", Comma, Quote, Quote, Newline, Quote>>

(* a field that needs no quotes *)
C19_WitnessVerbatim ==
    /\ field = Txt(<<"a", "a">>)
    /\ quoted = <<"a", "a">>

(* C20: in the text of every view's export every field of the header row   *)
(* and of every data row that holds a comma, a double quote or a newline   *)
(* is quoted, so the header line and every data line read back with the    *)
(* same number of fields.                                                  *)
C20_ExportFieldCounts ==
    \A i \in 1..Len(Records(csv)) :
      Len(Records(csv)[i]) = Len(Records(csv)[1])

(* The line ends of an exported text; no field of the exported rows of the *)
(* model holds a newline, so every line end closes a record.               *)
Terminators(text) == Cardinality({i \in 1..Len(text) : text[i] = Newline})

(* C21: the text of every view's export has a newline after the header row *)
(* and after each data row: k + 1 record terminators for k data rows, the  *)
(* last character being a newline.                                         *)
C21_TrailingNewline ==
    csv # <<>> =>
      /\ csv[Len(csv)] = Newline
      /\ Terminators(csv) = Len(Records(csv))

----------------------------------------------------------------------------
(* Claims about the agreement of the two aggregations *)

RECURSIVE SumGroups(_, _)
SumGroups(row, groups) ==
    IF groups = <<>> THEN 0
    ELSE row[Head(groups)].n + SumGroups(row, Tail(groups))

(* C27: with sort mode "value", the grouped and the flat aggregation of    *)
(* the same rows, category, metric and topN hold the same category names   *)
(* in the same order, "Other" included, and the group fields of each       *)
(* grouped row add up to the value of the flat bucket of its category.     *)
C27_GroupedMatchesFlat ==
    (cat # "" /\ groupBy # "" /\ sortBy = "value") =>
      /\ Len(groupedAgg.data) = Len(baseAgg)
      /\ \A p \in 1..Len(baseAgg) :
           /\ groupedAgg.data[p][cat] = Str(baseAgg[p].name)
           /\ SumGroups(groupedAgg.data[p], groupedAgg.groups)
                = baseAgg[p].value

(* The agreement holds for the rows none of whose group values is the     *)
(* name of the category column.                                            *)
C27_NoCollision ==
    (\A i \in RowIds : CoercedCategory(rows[i], groupBy) # cat)
       => C27_GroupedMatchesFlat

----------------------------------------------------------------------------
(* Claims about the range filter of the Factors view *)

BasePointsNow == basePoints(rows, xCol, yCol)

(* The least and the greatest coordinate k of the base points *)
LeastOf(bp, k) ==
    CHOOSE m \in {bp[i][k].n : i \in 1..Len(bp)} :
      \A i \in 1..Len(bp) : m <= bp[i][k].n

GreatestOf(bp, k) ==
    CHOOSE m \in {bp[i][k].n : i \in 1..Len(bp)} :
      \A i \in 1..Len(bp) : m >= bp[i][k].n

(* The range inputs hold the bounds of the base points and nothing is      *)
(* filtered out; there is nothing to hold without base points.             *)
RangesAtDomain ==
    BasePointsNow # <<>> =>
      /\ xMin = JsString(Num(LeastOf(BasePointsNow, 1)))
      /\ xMax = JsString(Num(GreatestOf(BasePointsNow, 1)))
      /\ yMin = JsString(Num(LeastOf(BasePointsNow, 2)))
      /\ yMax = JsString(Num(GreatestOf(BasePointsNow, 2)))
      /\ points = BasePointsNow

(* A bound is in force when its text reads as a number or an infinity *)
NotBelow(v, text) ==
    LET b == ToNumber(Str(text))
    IN /\ b.t = "num" => v.n >= b.n
       /\ b.t = "inf" => b.n < 0

NotAbove(v, text) ==
    LET b == ToNumber(Str(text))
    IN /\ b.t = "num" => v.n <= b.n
       /\ b.t = "inf" => b.n > 0

FilteredWithinBounds ==
    \A i \in 1..Len(points) :
      /\ points[i][1].t = "num" /\ points[i][2].t = "num"
      /\ NotBelow(points[i][1], xMin) /\ NotAbove(points[i][1], xMax)
      /\ NotBelow(points[i][2], yMin) /\ NotAbove(points[i][2], yMax)

ColumnsChanged == (loading /\ ~loading') \/ xCol' # xCol \/ yCol' # yCol

(* C29: after the load and after every change of the X or Y column the     *)
(* four range inputs hold the least and greatest x and y of the new base   *)
(* points and the filtered points are the base points; at all times every  *)
(* filtered point has finite coordinates within the bounds in force.       *)
C29_RangesFollowColumns ==
    /\ []FilteredWithinBounds
    /\ [][ColumnsChanged => RangesAtDomain']_vars

(* the ranges were reset by a change of column: no typed text is "1" or    *)
(* "3", and both rows passed the filter                                     *)
C29_Witness ==
    /\ ~loading /\ xCol = "b" /\ yCol = "b"
    /\ xMin = "1" /\ xMax = "3" /\ yMin = "1" /\ yMax = "3"
    /\ Len(points) = 2

(* a typed bound filters a base point out *)
C29_WitnessEdited ==
    /\ ~loading /\ xCol = "a" /\ yCol = "b"
    /\ xMin = "2" /\ Len(BasePointsNow) = 2 /\ Len(points) = 1

----------------------------------------------------------------------------
(* Claims about the load effects *)

CurrentRun == effects[Len(effects)]

NoFailure ==
    \A i \in 1..Len(effects) : \A p \in Requests(view) :
      effects[i].reqs[p] # Failed

SomeFailure ==
    \/ \E i \in 1..Len(effects) :
         effects[i].settled /\ \E p \in Requests(view) : effects[i].reqs[p] = Failed
    \/ \E i \in 1..Len(groupRuns) : groupRuns[i].state = "failed"

(* C22: no setter of a view is called once the view has been torn down,    *)
(* whether its fetch succeeds or fails afterwards.                         *)
C22_NoSetterAfterTeardown == late = {}

(* C23: while the fetch of the current run of the load effect is           *)
(* outstanding, loading is true and the placeholder is shown, also when an *)
(* earlier run that was torn down completes in the meantime.               *)
C23_LoadingWhileOutstanding ==
    (mounted /\ ~CurrentRun.settled) => (loading /\ Shown = "loading")

(* C24: an ok response whose body is null or not an array leaves every     *)
(* fetching component with an empty row set and its empty state, without   *)
(* an error and without an exception.                                      *)
C24_MalformedIsEmpty ==
    ( /\ mounted /\ CurrentRun.alive /\ CurrentRun.settled
      /\ NoFailure
      /\ CurrentRun.reqs[DataPath(view)].t # "array" )
    => /\ viewRows = Arr(<<>>)
       /\ error = Null
       /\ ~thrown
       /\ Shown = "empty"

(* C25: once a fetch of a mounted component has failed, the component      *)
(* holds an error and shows it instead of data.                            *)
C25_FailureIsShown ==
    (mounted /\ SomeFailure) => (error.t = "str" /\ Shown = "error")

(* An error that was set stays, and no load request is issued after it.    *)
C25_ErrorIsKept ==
    [][error.t = "str" => (error' = error /\ Len(effects') = Len(effects))]_vars

(* C26: the groups shown by TopGroups change only to the groups of the     *)
(* field that is selected when the response arrives; the response of a     *)
(* request made for an earlier selection changes nothing.                  *)
C26_StaleGroupsDiscarded ==
    [][shownGroups' # shownGroups =>
         /\ mounted
         /\ \A i \in 1..Len(shownGroups') : shownGroups'[i].key[1] = field.s
         /\ \E i \in 1..Len(groupRuns) :
              /\ groupRuns[i].state = "pending" /\ groupRuns'[i].state = "done"
              /\ groupRuns[i].by = field.s /\ i = Len(groupRuns)]_vars

(* the request for the first field was answered after the field changed:   *)
(* nothing is shown while the request for the new field is in flight       *)
C26_Witness ==
    /\ mounted /\ Len(groupRuns) = 2
    /\ groupRuns[1].state = "done" /\ groupRuns[2].state = "pending"
    /\ groupRuns[1].by # groupRuns[2].by
    /\ shownGroups = <<>>

(* the response for the selected field is shown, sorted by count *)
C26_WitnessShown ==
    /\ mounted /\ Len(groupRuns) = 2
    /\ groupRuns[1].state = "done" /\ groupRuns[2].state = "done"
    /\ Len(shownGroups) = 2
    /\ shownGroups[1].count = 2 /\ shownGroups[1].key[1] = field.s

----------------------------------------------------------------------------
(* Claims about the Treatment selectors *)

(* C28: after any sequence of Category and Group by selections the         *)
(* selected Group by column is not the selected Category column.           *)
C28_GroupByDiffers == groupBy # "" => groupBy # cat

----------------------------------------------------------------------------
(* Claims about the debounce of the Explore search *)

(* C30: at most one timer is pending; the applied filter changes only to   *)
(* the text of the input, and only when that text has been in the input    *)
(* for the whole delay; once typing has stopped the applied filter is      *)
(* eventually the text of the input and stays so.                          *)
C30_Debounce ==
    /\ [](Cardinality(timers) <= 1)
    /\ [][globalFilter' # globalFilter =>
            (globalFilter' = pendingFilter /\ idle >= DebounceTicks)]_vars
    /\ <>[](globalFilter = pendingFilter)

(* "a" was typed and replaced by "ab" within the delay: it was never       *)
(* applied, and the one pending timer is the one of "ab"                   *)
C30_Witness ==
    /\ typed = 2 /\ pendingFilter = "ab" /\ globalFilter = ""
    /\ timers = {[text |-> "ab", left |-> 1]}

(* the last text has been applied *)
C30_WitnessApplied ==
    /\ typed = 2 /\ pendingFilter = "ab" /\ globalFilter = "ab" /\ timers = {}

====
